---- MODULE Spec2Model ----
(***************************************************************************)
(* A model of the lottery analytics pipeline: the record preparer, the     *)
(* queries of the DataAnalyzer, the doubles, gan and cycle strategies, the *)
(* PredictionEngine, the Backtester, and the worker with its page.         *)
(*                                                                         *)
(* A lotto number is the two-character string "00".."99"; it is modelled   *)
(* as the pair of its digit characters <<head, tail>>, so that num[0] and  *)
(* num[1] of the source are num[1] and num[2] here and parseInt is a       *)
(* computation.  Array indices of the source are 0-based; sequences here   *)
(* are 1-based, and every index variable keeps the source's 0-based value. *)
(*                                                                         *)
(* Scores are JavaScript numbers.  The model keeps them as integers in     *)
(* units of 1/ScoreScale, which makes every factor the engine applies      *)
(* (the weights, 0.5, 0.8, 0.2) exact.  NaN is a value of its own.         *)
(***************************************************************************)
EXTENDS Integers, Sequences, FiniteSets, TLC

VARIABLES
    historyGiven,       \* predictNextDay: whether the argument is given (not null)
    historyData,        \* predictNextDay: the argument, an array of prepared days
    strategyOutcomes,   \* what each strategy's predict does on this call
    pc,                 \* "ready" | "predicted" | "failed"
    call                \* what the call of predictNextDay did: the error thrown or
                        \* the array returned, and the values of its locals

engineVars == <<historyGiven, historyData, strategyOutcomes, pc, call>>

VARIABLES
    analyzerHistory,    \* the argument of new DataAnalyzer(historyData)
    analyzerPc,         \* "ready" | "failed", or what was asked of the analyzer:
                        \* "queried" is getGanStatus
    ganMap,             \* the Map getGanStatus() returns
    daysLookback,       \* the argument of a query over a trailing window
    answer              \* what any other query, or a strategy's predict, did

analyzerVars == <<analyzerHistory, analyzerPc, ganMap, daysLookback, answer>>

VARIABLES
    fullHistoryData,    \* runBacktest: the argument
    backtestOutcomes,   \* what each strategy's predict does during the backtest
    engineFaults,       \* the day indices at which the call of predictNextDay
                        \* throws for a reason of its environment
    backtestPc,         \* "ready" | "loop" | "returned" | "threw"
    loopIndex,          \* runBacktest: i, the loop index
    totalDaysTested,
    totalCorrectNumbers,
    daysWithHighAccuracy,
    daysMeetingProfitThreshold,
    dailyCorrectCounts,
    totalInvestment,
    totalGains,
    dailyNetProfits,
    attemptedDays,      \* the day indices for which predictNextDay was called
    simulated,          \* the last iteration: what predictNextDay did
    otherSimulated,     \* the same on a history that differs from day i on
    day,                \* the last iteration: its index and what it recorded
    accuracyStats       \* what runBacktest returns or throws

backtestVars == <<fullHistoryData, backtestOutcomes, engineFaults, backtestPc, loopIndex,
                  totalDaysTested, totalCorrectNumbers, daysWithHighAccuracy,
                  daysMeetingProfitThreshold, dailyCorrectCounts, totalInvestment,
                  totalGains, dailyNetProfits, attemptedDays, simulated,
                  otherSimulated, day, accuracyStats>>

VARIABLES
    dataInput,          \* script.js: dataInput.value, the text in the input box
    ui,                 \* script.js: what the page shows
    worker,             \* script.js: <<>> for null, or <<the click that made it>>
    clicks,             \* how many times the process button was clicked
    inbox,              \* worker.js: event.data of the message received
    workerPc,           \* worker.js: "none" | "received" | "backtesting" | "done"
    preparedData,       \* worker.js: how far the handler got to preparedData
    posted,             \* worker.js: the messages posted, oldest first
    handled,            \* script.js: how many of them worker.onmessage handled
    postedBy            \* which Worker object each of them was posted through

workerVars == <<dataInput, ui, worker, clicks, inbox, workerPc, preparedData, posted,
                handled, postedBy>>

vars == <<engineVars, analyzerVars, backtestVars, workerVars>>

-----------------------------------------------------------------------------
(* WorkerUtils.CONSTANTS *)

NUM_PREDICTED_LOTTO_NUMBERS == 16
MIN_HISTORY_FOR_ANALYSIS == 200

\* WorkerUtils.CONSTANTS.LOOKBACK: the default lookback periods, in days
LOOKBACK ==
    [VERY_SHORT |-> 3, SHORT |-> 7, MEDIUM |-> 30, LONG |-> 60, VERY_LONG |-> 120,
     EXTENDED |-> 200]
BACKTEST_WINDOW_SIZE == 150
HIGH_ACCURACY_THRESHOLD == 10
PROFIT_THRESHOLD_DEFAULT == 5
MAX_STRATEGY_SCORE == 100

GAN_RANGE_SHORT == <<1, 6>>
GAN_RANGE_MEDIUM == <<7, 15>>
GAN_RANGE_LONG == <<16, 30>>
GAN_RANGE_SUPER_GAN == <<31, 60>>
GAN_RANGE_ULTRA_GAN == <<61, 90>>

\* STRATEGY_WEIGHTS, in hundredths, in the order of PredictionEngine.strategies
STRATEGY_WEIGHTS == <<13, 11, 9, 7, 7, 15, 8, 8, 6, 9, 4, 3>>

\* one score unit of the source is ScoreScale units here: 100 for the weights'
\* two decimals, 50 for the factors 0.5 * 0.2 and 0.8 * 0.2
ScoreScale == 5000

\* Number.NaN: absorbing under + and *, falsy under ||
NaN == -1

Digits == 0..9

\* String(i).padStart(2, '0') for i in 0..99
PadStart2(i) == <<i \div 10, i % 10>>

\* parseInt of a two-digit string
ParseInt(num) == 10 * num[1] + num[2]

\* ALL_LOTTO_NUMBERS: Array.from({length: 100}, (_, i) => String(i).padStart(2, '0'))
ALL_LOTTO_NUMBERS == [i \in 1..100 |-> PadStart2(i - 1)]

generateAllLottoNumbers == ALL_LOTTO_NUMBERS

Universe == {PadStart2(i) : i \in 0..99}

reverseNumber(numStr) == IF numStr[1] # numStr[2] THEN <<numStr[2], numStr[1]>> ELSE numStr

calculateTotal(numStr) == numStr[1] + numStr[2]

isKep(numStr) == numStr[1] = numStr[2]

BONG_SO_MAP == [d \in Digits |-> (d + 5) % 10]

getBongSo(digit) == BONG_SO_MAP[digit]

getLotoBong(numStr) == <<getBongSo(numStr[1]), getBongSo(numStr[2])>>

-----------------------------------------------------------------------------
(* Array helpers *)

Range(s) == {s[k] : k \in 1..Len(s)}

Min(a, b) == IF a < b THEN a ELSE b

Max(a, b) == IF a > b THEN a ELSE b

RECURSIVE SumBetween(_, _, _)
SumBetween(arr, lo, hi) ==
    IF lo > hi THEN 0
    ELSE IF lo = hi THEN arr[lo]
    ELSE LET mid == (lo + hi) \div 2
         IN  SumBetween(arr, lo, mid) + SumBetween(arr, mid + 1, hi)

Sum(arr) == SumBetween(arr, 1, Len(arr))

Includes(arr, x) == \E k \in 1..Len(arr) : arr[k] = x

\* Array.prototype.slice(from, to) with 0 <= from, 0-based, to exclusive
Slice(arr, from, to) ==
    LET hi == IF to > Len(arr) THEN Len(arr) ELSE to
    IN  IF from >= hi THEN <<>> ELSE SubSeq(arr, from + 1, hi)

\* [...new Set(arr)]: the first occurrence of each element, in order
RECURSIVE UniqueOf(_, _)
UniqueOf(arr, k) ==
    IF k > Len(arr) THEN <<>>
    ELSE IF \E j \in 1..(k - 1) : arr[j] = arr[k]
         THEN UniqueOf(arr, k + 1)
         ELSE <<arr[k]>> \o UniqueOf(arr, k + 1)

Dedupe(arr) == UniqueOf(arr, 1)

-----------------------------------------------------------------------------
(* DataPreparer.prepareHistoricalData: the fields of a day the engine, the   *)
(* absence query and the backtester read                                     *)

PrepareDay(numbers) ==
    [numbers |-> numbers, uniqueNumbers |-> Dedupe(numbers)]

prepareHistoricalData(organizedData) ==
    [k \in 1..Len(organizedData) |-> PrepareDay(organizedData[k])]

-----------------------------------------------------------------------------
(* DataAnalyzer *)

\* lastAppearanceMap after historyData.forEach((dayInfo, index) =>
\* dayInfo.uniqueNumbers.forEach(num => lastAppearanceMap.set(num, index))),
\* restricted to the days lo..hi (1-based): a Map, here a function whose domain
\* is the set of keys.  A later set() overwrites an earlier one, so the map of
\* lo..hi is the map of the later half laid over the map of the earlier half.
RECURSIVE LastAppearanceMap(_, _, _)
LastAppearanceMap(history, lo, hi) ==
    IF lo > hi THEN <<>>
    ELSE IF lo = hi
         THEN [num \in Range(history[lo].uniqueNumbers) |-> lo - 1] @@ <<>>
         ELSE LET mid == (lo + hi) \div 2
              IN  LastAppearanceMap(history, mid + 1, hi)
                      @@ LastAppearanceMap(history, lo, mid)

\* index 0 taken for "never seen" (lastAppearanceMap.get(num) || -1)
getGanStatus_IndexZeroUnseen(history) ==
    LET lastAppearanceMap == LastAppearanceMap(history, 1, Len(history))
        currentDayIndex == Len(history)
    IN  [num \in Universe |->
            IF num \in DOMAIN lastAppearanceMap /\ lastAppearanceMap[num] # 0
            THEN [daysGone |-> currentDayIndex - lastAppearanceMap[num] - 1,
                  lastSeenIndex |-> lastAppearanceMap[num]]
            ELSE [daysGone |-> currentDayIndex, lastSeenIndex |-> -1]]

\* getGanStatus(): num -> {daysGone, lastSeenIndex}; currentDayIndex is
\* historyData.length
getGanStatus(history) ==
    LET lastAppearanceMap == LastAppearanceMap(history, 1, Len(history))
        currentDayIndex == Len(history)
    IN  [num \in Universe |->
            IF num \in DOMAIN lastAppearanceMap
            THEN [daysGone |-> currentDayIndex - lastAppearanceMap[num] - 1,
                  lastSeenIndex |-> lastAppearanceMap[num]]
            ELSE [daysGone |-> currentDayIndex, lastSeenIndex |-> -1]]

\* _getHistorySlice(daysLookback): the trailing days of the history,
\* slice(Math.max(0, length - daysLookback)), and no day for a lookback of 0
getHistorySlice(history, lookback) ==
    IF lookback = 0 THEN <<>>
    ELSE SubSeq(history, Max(0, Len(history) - lookback) + 1, Len(history))

\* the number of positions of arr that hold num
CountIn(arr, num) == Cardinality({k \in 1..Len(arr) : arr[k] = num})

\* counts once per day a number landed, not once per landing
getNumbersFrequency_PerDay(history, lookback) ==
    LET recentHistory == getHistorySlice(history, lookback)
    IN  [num \in Universe |->
            Sum([k \in 1..Len(recentHistory) |->
                    CountIn(recentHistory[k].uniqueNumbers, num)])]

\* getNumbersFrequency(daysLookback): every lotto number starts at 0 and gains
\* one per entry of dayInfo.numbers of the days of the slice
getNumbersFrequency(history, lookback) ==
    LET recentHistory == getHistorySlice(history, lookback)
    IN  [num \in Universe |->
            Sum([k \in 1..Len(recentHistory) |->
                    CountIn(recentHistory[k].numbers, num)])]

\* the same without the test reversedNum !== num
getReverseCoOccurrences_DoublesCounted(history, lookback) ==
    LET recentHistory == getHistorySlice(history, lookback)
        Increments(dayInfo, target) ==
            LET unique == dayInfo.uniqueNumbers
            IN  Cardinality({k \in 1..Len(unique) :
                    /\ reverseNumber(unique[k]) \in Range(unique)
                    /\ unique[k] = target}) +
                Cardinality({k \in 1..Len(unique) :
                    /\ reverseNumber(unique[k]) \in Range(unique)
                    /\ reverseNumber(unique[k]) = target})
    IN  [num \in Universe |->
            Sum([k \in 1..Len(recentHistory) |-> Increments(recentHistory[k], num)])]

\* getReverseCoOccurrences(daysLookback): every lotto number starts at 0; on
\* each day of the slice each unique number that is not its own reverse and
\* whose reverse landed too adds one to its own count and one to its reverse's
getReverseCoOccurrences(history, lookback) ==
    LET recentHistory == getHistorySlice(history, lookback)
        Increments(dayInfo, target) ==
            LET unique == dayInfo.uniqueNumbers
            IN  Cardinality({k \in 1..Len(unique) :
                    /\ reverseNumber(unique[k]) # unique[k]
                    /\ reverseNumber(unique[k]) \in Range(unique)
                    /\ unique[k] = target}) +
                Cardinality({k \in 1..Len(unique) :
                    /\ reverseNumber(unique[k]) # unique[k]
                    /\ reverseNumber(unique[k]) \in Range(unique)
                    /\ reverseNumber(unique[k]) = target})
    IN  [num \in Universe |->
            Sum([k \in 1..Len(recentHistory) |-> Increments(recentHistory[k], num)])]

\* DataPreparer: totalsLanded, the digit sums of the day's unique numbers, each
\* once, in the order they first come up
totalsLanded(dayInfo) ==
    Dedupe([k \in 1..Len(dayInfo.uniqueNumbers) |->
               calculateTotal(dayInfo.uniqueNumbers[k])])

\* getGanTotalsStatus(): total -> {daysGone, lastSeenDate} for the totals
\* 0..18.  lastSeenIndex is lastAppearanceMap.get(i) || -1, so both a total
\* without an entry (undefined) and a total last set at index 0 become -1.
\* lastSeenDate is historyData[lastSeenIndex].date, kept here as the index of
\* the day the date is read from, or null.
getGanTotalsStatus(history) ==
    LET currentDayIndex == Len(history)
        SetAt(total) == {index \in 0..(Len(history) - 1) :
                            total \in Range(totalsLanded(history[index + 1]))}
        Got(total) == CHOOSE index \in SetAt(total) :
                          \A other \in SetAt(total) : other <= index
        LastSeenIndex(total) ==
            IF SetAt(total) = {} \/ Got(total) = 0 THEN -1 ELSE Got(total)
    IN  [i \in 0..18 |->
            IF LastSeenIndex(i) # -1
            THEN [daysGone |-> currentDayIndex - LastSeenIndex(i) - 1,
                  lastSeenDate |-> [null |-> FALSE, ofDay |-> LastSeenIndex(i)]]
            ELSE [daysGone |-> currentDayIndex,
                  lastSeenDate |-> [null |-> TRUE, ofDay |-> -1]]]

\* getLoRoiCandidates(daysLookback, mustBeConsecutive): over the slice of
\* daysLookback + 1 days, for each lotto number the loop over i = 1.. counts
\* the days the number is on together with the day before; with
\* mustBeConsecutive a day the number left (on the day before, not on the
\* day) clears lastFound and ends the loop.  The Map gets the numbers with a
\* count above 0, unless mustBeConsecutive and lastFound was cleared.  A slice
\* of fewer than 2 days gives the empty Map.
getLoRoiCandidates(history, lookback, mustBeConsecutive) ==
    LET historySlice == getHistorySlice(history, lookback + 1)
        On(num, i) == num \in Range(historySlice[i].uniqueNumbers)
        Left(num) == {i \in 2..Len(historySlice) : On(num, i - 1) /\ ~On(num, i)}
        lastFound(num) == ~(mustBeConsecutive /\ Left(num) # {})
        dropCount(num) ==
            Cardinality({i \in 2..Len(historySlice) :
                /\ On(num, i - 1) /\ On(num, i)
                /\ mustBeConsecutive => \A j \in Left(num) : i < j})
    IN  IF Len(historySlice) < 2 THEN <<>>
        ELSE [num \in {n \in Universe :
                          dropCount(n) > 0 /\ ~(mustBeConsecutive /\ ~lastFound(n))} |->
                 dropCount(num)]

\* numberAppearanceIndices.get(num): the indices, in the whole history, of the
\* days of the slice on which num landed, ascending
AppearanceIndices(history, lookback, num) ==
    LET historySlice == getHistorySlice(history, lookback)
        startIndex == Len(history) - Len(historySlice)
    IN  SelectSeq([relativeIndex \in 1..Len(historySlice) |->
                      startIndex + relativeIndex - 1],
                  LAMBDA index : num \in Range(history[index + 1].uniqueNumbers))

\* the same without the test potentialNextIndex === this.currentDayIndex
getConsistentPeriodBridge_AnyRun(history, minOccurrences, maxPeriod, lookback) ==
    {num \in Universe :
        LET indices == AppearanceIndices(history, lookback, num)
        IN  /\ Len(indices) >= minOccurrences
            /\ \E period \in 1..maxPeriod :
                   \E i \in 0..(Len(indices) - minOccurrences) :
                       \A j \in 0..(minOccurrences - 2) :
                           indices[i + j + 2] - indices[i + j + 1] = period}

\* getConsistentPeriodBridge(minOccurrences, maxPeriod, daysLookback): a number
\* with at least minOccurrences indices is added when for some period and
\* some start i the minOccurrences entries from i on are each period after
\* the one before (isConsistent) and the last of them plus period is
\* currentDayIndex.  Positions of the source's 0-based list are one more here.
getConsistentPeriodBridge(history, minOccurrences, maxPeriod, lookback) ==
    {num \in Universe :
        LET indices == AppearanceIndices(history, lookback, num)
            currentDayIndex == Len(history)
        IN  /\ Len(indices) >= minOccurrences
            /\ \E period \in 1..maxPeriod :
                   \E i \in 0..(Len(indices) - minOccurrences) :
                       /\ \A j \in 0..(minOccurrences - 2) :
                              indices[i + j + 2] - indices[i + j + 1] = period
                       /\ indices[i + minOccurrences] + period = currentDayIndex}

\* [...arr].sort() of two-character digit strings: ascending by value, equal
\* strings next to each other
SortStrings(arr) ==
    [k \in 1..Len(arr) |->
        CHOOSE num \in Range(arr) :
            LET less == Cardinality({j \in 1..Len(arr) :
                                        ParseInt(arr[j]) < ParseInt(num)})
            IN  less < k /\ k <= less + CountIn(arr, num)]

\* the count getAllPairCoOccurrences keeps for key2 in key1's Map after the
\* days whose sorted arrays are given: one per day and per pair of positions
\* idxA < idxB holding the two keys, in either order
PairIncrements(sortedDays, key1, key2) ==
    Sum([k \in 1..Len(sortedDays) |->
            Cardinality({pair \in (1..Len(sortedDays[k])) \X (1..Len(sortedDays[k])) :
                /\ pair[1] < pair[2]
                /\ \/ sortedDays[k][pair[1]] = key1 /\ sortedDays[k][pair[2]] = key2
                   \/ sortedDays[k][pair[1]] = key2 /\ sortedDays[k][pair[2]] = key1})])

\* pairs the entries of dayInfo.numbers, repeats included
getAllPairCoOccurrences_Multiplicities(history, lookback) ==
    LET historySlice == getHistorySlice(history, lookback)
        sortedDays == [k \in 1..Len(historySlice) |->
                          SortStrings(historySlice[k].numbers)] @@ <<>>
        paired == UNION {Range(sortedDays[k]) : k \in 1..Len(sortedDays)}
    IN  [n1 \in Universe |->
            IF n1 \notin paired THEN <<>>
            ELSE [n2 \in {n \in paired : PairIncrements(sortedDays, n1, n) > 0} |->
                     PairIncrements(sortedDays, n1, n2)]]

\* getAllPairCoOccurrences(daysLookback): every lotto number starts with an
\* empty Map; on each day of the slice each pair of positions idxA < idxB of
\* the sorted unique numbers adds one to the entry numB of numA's Map and one
\* to the entry numA of numB's Map, an entry starting at 0.  Only numbers of
\* the slice's days get entries.
getAllPairCoOccurrences(history, lookback) ==
    LET historySlice == getHistorySlice(history, lookback)
        sortedDays == [k \in 1..Len(historySlice) |->
                          SortStrings(historySlice[k].uniqueNumbers)] @@ <<>>
        paired == UNION {Range(sortedDays[k]) : k \in 1..Len(sortedDays)}
    IN  [n1 \in Universe |->
            IF n1 \notin paired THEN <<>>
            ELSE [n2 \in {n \in paired : PairIncrements(sortedDays, n1, n) > 0} |->
                     PairIncrements(sortedDays, n1, n2)]]

getLastDayNumbers(history) ==
    IF Len(history) > 0 THEN history[Len(history)].uniqueNumbers ELSE <<>>

getSecondLastDayNumbers(history) ==
    IF Len(history) > 1 THEN history[Len(history) - 1].uniqueNumbers ELSE <<>>

-----------------------------------------------------------------------------
(* PredictionEngine *)

\* PredictionEngine.strategies, by position in the list
StrategyIdx == 1..Len(STRATEGY_WEIGHTS)

\* JavaScript + and * on scores, with NaN absorbing
Plus(a, b) == IF a = NaN \/ b = NaN THEN NaN ELSE a + b

Times(a, b) == IF a = NaN \/ b = NaN THEN NaN ELSE a * b

\* a || 0
OrZero(a) == IF a = NaN THEN 0 ELSE a

\* Math.max(0, score)
MaxZero(score) == IF score = NaN THEN NaN ELSE IF score < 0 THEN 0 ELSE score

\* What strategy.predict(analyzer) may do: throw, or return a ScoreMap, a Map
\* from lotto numbers to a score in [0, MAX_STRATEGY_SCORE] or NaN.  The maps
\* are named by the pattern that generates them:
\*   "none"    an empty Map
\*   "zero"    every number scores 0
\*   "spread"  scores scattered over the universe
\*   "byHead"  the lower the head digit, then the tail digit, the higher
\*   "byTail"  the lower the tail digit, then the head digit, the higher
\*   "bySum"   the numbers of digit sum 9 score the maximum, the others are
\*             scattered below them
\*   "lastDay" the numbers of the most recent day score the maximum
\*   "kep"     keys for the doubles and the near-doubles only, the latter NaN
\*             (StrategyKepNumbers: scores.get(gnk) + 15 on an absent key)
Patterns == {"none", "zero", "spread", "byHead", "byTail", "bySum", "lastDay", "kep"}

ScoreMapOf(pattern, history) ==
    CASE pattern = "none" -> <<>>
      [] pattern = "zero" -> [num \in Universe |-> 0]
      [] pattern = "spread" -> [num \in Universe |-> (37 * ParseInt(num) + 11) % 101]
      [] pattern = "byHead" -> [num \in Universe |-> MAX_STRATEGY_SCORE - ParseInt(num)]
      [] pattern = "byTail" ->
            [num \in Universe |-> MAX_STRATEGY_SCORE - (10 * num[2] + num[1])]
      [] pattern = "bySum" ->
            [num \in Universe |->
                IF calculateTotal(num) = 9 THEN MAX_STRATEGY_SCORE
                ELSE ((37 * ParseInt(num) + 11) % 101) \div 2]
      [] pattern = "lastDay" ->
            [num \in Universe |->
                IF Includes(getLastDayNumbers(history), num)
                THEN MAX_STRATEGY_SCORE ELSE 0]
      [] pattern = "kep" ->
            [num \in {n \in Universe : n[1] - n[2] \in {-1, 0, 1}} |->
                IF isKep(num) THEN 40 ELSE NaN]

Throws(outcome) == outcome = "throws"

\* strategyScores.forEach((score, num) => overallScores.set(num,
\*     overallScores.get(num) + score * strategy.weight))
Accumulate(scores, strategyScores, weight) ==
    [num \in Universe |->
        IF num \in DOMAIN strategyScores
        THEN Plus(scores[num], Times(strategyScores[num], weight * (ScoreScale \div 100)))
        ELSE scores[num]] @@ <<>>

\* the iteration without its try/catch
RunStrategy_NoCatch(loop, s, outcomes, history) ==
    IF Throws(outcomes[s])
    THEN [loop EXCEPT !.ran = Append(@, s), !.uncaught = TRUE]
    ELSE [loop EXCEPT !.ran = Append(@, s),
                      !.scores = Accumulate(@, ScoreMapOf(outcomes[s], history),
                                            STRATEGY_WEIGHTS[s])]

\* One iteration of strategies.forEach: the try block and its catch.  The
\* state of the loop is the score board, the strategies called so far, and
\* the exception that left the loop, if any.
RunStrategy(loop, s, outcomes, history) ==
    IF Throws(outcomes[s])
    THEN [loop EXCEPT !.ran = Append(@, s)]
    ELSE [loop EXCEPT !.ran = Append(@, s),
                      !.scores = Accumulate(@, ScoreMapOf(outcomes[s], history),
                                            STRATEGY_WEIGHTS[s])]

RECURSIVE RunStrategiesFrom(_, _, _, _)
RunStrategiesFrom(loop, s, outcomes, history) ==
    IF s > Len(STRATEGY_WEIGHTS) \/ loop.uncaught THEN loop
    ELSE RunStrategiesFrom(RunStrategy(loop, s, outcomes, history), s + 1,
                           outcomes, history)

\* Phase 1, from overallScores = all 0
RunStrategies(outcomes, history) ==
    RunStrategiesFrom([scores |-> [num \in Universe |-> 0] @@ <<>>,
                       ran |-> <<>>, uncaught |-> FALSE],
                      1, outcomes, history)

\* _applyGlobalScoreAdjustments with Penalty 1 as two separate ifs, so that a
\* number of both days gets both factors
AdjustedScore_BothPenalties(num, score0, lastDayNumbers, secondLastDayNumbers, daysGone) ==
    LET score1 == OrZero(score0)
        halved == IF num \in lastDayNumbers THEN score1 \div 2 ELSE score1
        score2 == IF num \in secondLastDayNumbers THEN (halved * 4) \div 5 ELSE halved
        score3 == IF daysGone > GAN_RANGE_ULTRA_GAN[2] /\ score2 < 20 * ScoreScale
                  THEN score2 \div 5 ELSE score2
        score4 == IF /\ daysGone > GAN_RANGE_MEDIUM[1]
                     /\ daysGone <= GAN_RANGE_MEDIUM[2]
                     /\ score3 > 0
                  THEN score3 + 10 * ScoreScale ELSE score3
        reversedNum == reverseNumber(num)
        bongNum == getLotoBong(num)
        score5 == IF reversedNum # num /\ reversedNum \in lastDayNumbers
                  THEN score4 + 15 * ScoreScale ELSE score4
        score6 == IF bongNum # num /\ bongNum \in lastDayNumbers
                  THEN score5 + 10 * ScoreScale ELSE score5
    IN  MaxZero(score6)

\* _applyGlobalScoreAdjustments, for one number; arr.includes(num) is num \in
\* the set of arr's elements
AdjustedScore(num, score0, lastDayNumbers, secondLastDayNumbers, daysGone) ==
    LET score1 == OrZero(score0)
        \* Penalty 1
        score2 == IF num \in lastDayNumbers THEN score1 \div 2
                  ELSE IF num \in secondLastDayNumbers THEN (score1 * 4) \div 5
                  ELSE score1
        \* Penalty 2
        score3 == IF daysGone > GAN_RANGE_ULTRA_GAN[2] /\ score2 < 20 * ScoreScale
                  THEN score2 \div 5 ELSE score2
        \* Boost 1
        score4 == IF /\ daysGone > GAN_RANGE_MEDIUM[1]
                     /\ daysGone <= GAN_RANGE_MEDIUM[2]
                     /\ score3 > 0
                  THEN score3 + 10 * ScoreScale ELSE score3
        \* Boost 2
        reversedNum == reverseNumber(num)
        bongNum == getLotoBong(num)
        score5 == IF reversedNum # num /\ reversedNum \in lastDayNumbers
                  THEN score4 + 15 * ScoreScale ELSE score4
        score6 == IF bongNum # num /\ bongNum \in lastDayNumbers
                  THEN score5 + 10 * ScoreScale ELSE score5
    IN  MaxZero(score6)

_applyGlobalScoreAdjustments(scores, history) ==
    LET lastDayNumbers == Range(getLastDayNumbers(history))
        secondLastDayNumbers == Range(getSecondLastDayNumbers(history))
        ganStatus == getGanStatus(history) @@ <<>>
    IN  [num \in Universe |->
            AdjustedScore(num, scores[num], lastDayNumbers, secondLastDayNumbers,
                          ganStatus[num].daysGone)] @@ <<>>

\* Array.prototype.sort((a, b) => b[1] - a[1]) on the entries of a score Map: a
\* stable sort by score, descending.  An entry goes before another when its
\* score is greater, or equal with an earlier place in the array; with n
\* entries, score * n + (n - place) orders them so, and an entry's place in the
\* result is the number of entries with a greater key.  Only the keys of the
\* entries are kept; the score of a key is scores[key], a non-negative number.
RECURSIVE PlaceAll(_, _, _, _)
PlaceAll(keys, place, lo, hi) ==
    IF lo > hi THEN <<>>
    ELSE IF lo = hi THEN (place[lo] :> keys[lo])
    ELSE LET mid == (lo + hi) \div 2
         IN  PlaceAll(keys, place, lo, mid) @@ PlaceAll(keys, place, mid + 1, hi)

SortKeysByScoreDesc(keys, scores) ==
    LET n == Len(keys)
        order == [i \in 1..n |-> scores[keys[i]] * n + (n - i)] @@ <<>>
        orders == Range(order)
        place == [i \in 1..n |->
                     n + 1 - Cardinality(orders \cap (0..order[i]))] @@ <<>>
    IN  PlaceAll(keys, place, 1, n)

\* Array.from(overallScores.entries()): the Map keeps the insertion order of
\* its keys, "00", "01", ..., "99"
Entries(scores) == ALL_LOTTO_NUMBERS

SortByScoreDesc(scores) == SortKeysByScoreDesc(Entries(scores), scores)

MAX_HEAD_PER_CATEGORY == 3
MAX_TAIL_PER_CATEGORY == 3
MAX_TOTAL_PER_CATEGORY == 2
\* PERCENT_TO_ALLOW_BREACH = 0.25, in hundredths
PERCENT_TO_ALLOW_BREACH == 25

\* Step 1: the top min(2 * desiredCount, length) candidates
PredictionPool(sorted) ==
    LET desiredCount == NUM_PREDICTED_LOTTO_NUMBERS
        initialPoolSize == IF desiredCount * 2 < Len(sorted)
                           THEN desiredCount * 2 ELSE Len(sorted)
    IN  Slice(sorted, 0, initialPoolSize)

\* the caps applied from the first candidate on, no exempt slot
MeetsDiversityCriteria_NoExemption(sel, num) ==
    /\ ~(sel.headCounts[num[1]] >= MAX_HEAD_PER_CATEGORY)
    /\ ~(sel.tailCounts[num[2]] >= MAX_TAIL_PER_CATEGORY)
    /\ ~(sel.totalCounts[calculateTotal(num)] >= MAX_TOTAL_PER_CATEGORY)

\* the exemption reaching one slot too far (<= for <)
MeetsDiversityCriteria_ExemptFive(sel, num) ==
    LET byCaps == /\ ~(sel.headCounts[num[1]] >= MAX_HEAD_PER_CATEGORY)
                  /\ ~(sel.tailCounts[num[2]] >= MAX_TAIL_PER_CATEGORY)
                  /\ ~(sel.totalCounts[calculateTotal(num)] >= MAX_TOTAL_PER_CATEGORY)
    IN  IF Len(sel.selected) * 100 <= NUM_PREDICTED_LOTTO_NUMBERS * PERCENT_TO_ALLOW_BREACH
        THEN TRUE
        ELSE byCaps

\* Step 2, one candidate of the pool: whether it passes the diversity test
MeetsDiversityCriteria(sel, num) ==
    LET head == num[1]
        tail == num[2]
        total == calculateTotal(num)
        byCaps == /\ ~(sel.headCounts[head] >= MAX_HEAD_PER_CATEGORY)
                  /\ ~(sel.tailCounts[tail] >= MAX_TAIL_PER_CATEGORY)
                  /\ ~(sel.totalCounts[total] >= MAX_TOTAL_PER_CATEGORY)
    IN  IF Len(sel.selected) * 100 < NUM_PREDICTED_LOTTO_NUMBERS * PERCENT_TO_ALLOW_BREACH
        THEN TRUE
        ELSE byCaps

\* the tallies advanced for every candidate looked at, admitted or not
DiversifyStep_RejectedCounted(sel, num) ==
    [selected |-> IF MeetsDiversityCriteria(sel, num) /\ ~Includes(sel.selected, num)
                  THEN Append(sel.selected, num) ELSE sel.selected,
     headCounts |-> [sel.headCounts EXCEPT ![num[1]] = @ + 1],
     tailCounts |-> [sel.tailCounts EXCEPT ![num[2]] = @ + 1],
     totalCounts |-> [sel.totalCounts EXCEPT ![calculateTotal(num)] = @ + 1]]

\* Step 2, one candidate of the pool: admitted and tallied, or skipped
DiversifyStep(sel, num) ==
    IF MeetsDiversityCriteria(sel, num) /\ ~Includes(sel.selected, num)
    THEN [selected |-> Append(sel.selected, num),
          headCounts |-> [sel.headCounts EXCEPT ![num[1]] = @ + 1],
          tailCounts |-> [sel.tailCounts EXCEPT ![num[2]] = @ + 1],
          totalCounts |-> [sel.totalCounts EXCEPT ![calculateTotal(num)] = @ + 1]]
    ELSE sel

RECURSIVE DiversifyFrom(_, _, _)
DiversifyFrom(sel, pool, k) ==
    IF k > Len(pool) \/ Len(sel.selected) >= NUM_PREDICTED_LOTTO_NUMBERS THEN sel
    ELSE DiversifyFrom(DiversifyStep(sel, pool[k]), pool, k + 1)

\* Step 2: selectedNumbers (a Set, in insertion order) after the pass
DiversifyPass(sorted) ==
    DiversifyFrom([selected |-> <<>>,
                   headCounts |-> [d \in Digits |-> 0],
                   tailCounts |-> [d \in Digits |-> 0],
                   totalCounts |-> [t \in 0..18 |-> 0]],
                  PredictionPool(sorted), 1).selected

\* Step 3: the fallback loop
RECURSIVE FallbackFrom(_, _, _)
FallbackFrom(selected, sorted, fallbackCounter) ==
    IF ~(Len(selected) < NUM_PREDICTED_LOTTO_NUMBERS /\ fallbackCounter < Len(sorted))
    THEN selected
    ELSE LET num == sorted[fallbackCounter + 1]
         IN  FallbackFrom(IF ~Includes(selected, num) THEN Append(selected, num)
                          ELSE selected,
                          sorted, fallbackCounter + 1)

FallbackFill(selected, sorted) == FallbackFrom(selected, sorted, 0)

_selectAndDiversifyNumbers(sorted) == FallbackFill(DiversifyPass(sorted), sorted)

\* .filter(pred) of a sequence of numbers
RECURSIVE FilterOut(_, _, _)
FilterOut(arr, excluded, k) ==
    IF k > Len(arr) THEN <<>>
    ELSE IF Includes(excluded, arr[k]) THEN FilterOut(arr, excluded, k + 1)
         ELSE <<arr[k]>> \o FilterOut(arr, excluded, k + 1)

\* the final sort left out
SortByParseInt_Omitted(arr) == arr

\* .sort((a, b) => parseInt(a) - parseInt(b)) of an array of distinct numbers
SortByParseInt(arr) ==
    [k \in 1..Len(arr) |->
        CHOOSE x \in Range(arr) :
            Cardinality({y \in Range(arr) : ParseInt(y) < ParseInt(x)}) = k - 1]

\* Phase 4: dedupe, fill from the remaining candidates by score, cut to 16, sort
FinalValidation(selected, scores) ==
    LET unique == Dedupe(selected)
        missing == NUM_PREDICTED_LOTTO_NUMBERS - Len(unique)
        remainingCandidates ==
            SortKeysByScoreDesc(FilterOut(Entries(scores), unique, 1), scores)
        filled == IF Len(unique) < NUM_PREDICTED_LOTTO_NUMBERS
                  THEN unique \o Slice(remainingCandidates, 0, missing)
                  ELSE unique
    IN  SortByParseInt(Slice(filled, 0, NUM_PREDICTED_LOTTO_NUMBERS))

-----------------------------------------------------------------------------
(* Inputs *)

\* how many numbers land on a day of the "block" history
BlockSize == 17

\* where the run of numbers of a "block" day starts
BlockStart(k) == <<0, 3, 9, 30>>[(k % 4) + 1]

\* the numbers landed on day k (0-based) of a generated history
\*   "cycle"  three numbers that change every day, one of them landing twice
\*   "sparse" two numbers of a ten-day cycle; most numbers never land
\*   "block"  a run of consecutive numbers, its first landing twice; the run
\*            of the next day overlaps it much, a little or not at all
\*   "linger" a number, the number that lands again the next day, and the
\*            reverse of that one
DayNumbers(shape, k) ==
    CASE shape = "cycle" ->
            <<PadStart2(k % 100), PadStart2((7 * k + 3) % 100), PadStart2(k % 100)>>
      [] shape = "sparse" ->
            <<PadStart2(k % 10), PadStart2(10 * (k % 10) + 1)>>
      [] shape = "block" ->
            [j \in 1..BlockSize |->
                PadStart2((BlockStart(k) + ((j - 1) % (BlockSize - 1))) % 100)]
      [] shape = "linger" ->
            <<PadStart2(k % 100), PadStart2((k + 1) % 100),
              reverseNumber(PadStart2((k + 1) % 100))>>

MakeHistory(shape, length) ==
    prepareHistoricalData([k \in 1..length |-> DayNumbers(shape, k - 1)])

\* how many days beyond the minimum the generated histories go
ExtraDays == 1

\* how many strategies fail in one call, unless all do
MaxFailing == 2

EngineLengths ==
    {0, MIN_HISTORY_FOR_ANALYSIS - 1, MIN_HISTORY_FOR_ANALYSIS,
     MIN_HISTORY_FOR_ANALYSIS + ExtraDays}

EngineHistories ==
    {MakeHistory(shape, n) :
        shape \in {"cycle", "sparse", "linger"}, n \in EngineLengths}

FailingSets ==
    {F \in SUBSET StrategyIdx : Cardinality(F) <= MaxFailing} \cup {StrategyIdx}

\* the pattern each working strategy returns: the same for all, or mixed
MixedProfile ==
    [s \in StrategyIdx |->
        IF s = 4 THEN "kep" ELSE IF s % 2 = 1 THEN "spread" ELSE "lastDay"]

Profiles ==
    {[s \in StrategyIdx |-> p] : p \in {"spread", "byHead", "byTail", "bySum", "lastDay"}}
        \cup {MixedProfile}

OutcomeProfiles ==
    {[s \in StrategyIdx |-> IF s \in F THEN "throws" ELSE profile[s]] :
        F \in FailingSets, profile \in Profiles}

-----------------------------------------------------------------------------
(* PredictionEngine.predictNextDay *)

\* new Error(`... Can it nhat ${MIN_HISTORY_FOR_ANALYSIS} ngay.`)
InsufficientData == [name |-> "insufficient-data", minimum |-> MIN_HISTORY_FOR_ANALYSIS]

\* the error of the DataAnalyzer constructor
EmptyHistoryData == [name |-> "analyzer-empty-history", minimum |-> 0]

\* an exception of a strategy that leaves predictNextDay
StrategyFailure == [name |-> "strategy-failure", minimum |-> 0]

NoError == [name |-> "none", minimum |-> 0]

\* the guard one record too lenient
HistoryTooShort_OffByOne(given, history) ==
    ~given \/ Len(history) < MIN_HISTORY_FOR_ANALYSIS - 1

\* !historyData || historyData.length < MIN_HISTORY_FOR_ANALYSIS
HistoryTooShort(given, history) ==
    ~given \/ Len(history) < MIN_HISTORY_FOR_ANALYSIS

\* the DataAnalyzer constructor: !historicalData || historicalData.length === 0
DataAnalyzerRejects(given, history) ==
    ~given \/ Len(history) = 0

\* before the call, and the locals of a call that throws at its start
NotCalled ==
    [threw |-> FALSE, error |-> NoError, analyzerBuilt |-> FALSE,
     strategiesRun |-> <<>>, phase1Scores |-> <<>>, overallScores |-> <<>>,
     sortedCandidates |-> <<>>, greedySelected |-> <<>>,
     selectedNumbers |-> <<>>, predicted |-> <<>>]

\* predictNextDay(historyData) with the strategies behaving as outcomes says:
\* what it throws or returns, and what it computed on the way
PredictNextDay(given, history, outcomes) ==
    IF HistoryTooShort(given, history)
    THEN [NotCalled EXCEPT !.threw = TRUE, !.error = InsufficientData]
    ELSE IF DataAnalyzerRejects(given, history)
    THEN [NotCalled EXCEPT !.threw = TRUE, !.error = EmptyHistoryData]
    ELSE LET loop == RunStrategies(outcomes, history)
             adjusted == _applyGlobalScoreAdjustments(loop.scores, history)
             sorted == SortByScoreDesc(adjusted)
             greedy == DiversifyPass(sorted)
             selected == FallbackFill(greedy, sorted)
         IN  IF loop.uncaught
             THEN [NotCalled EXCEPT !.threw = TRUE, !.error = StrategyFailure,
                                    !.analyzerBuilt = TRUE,
                                    !.strategiesRun = loop.ran,
                                    !.phase1Scores = loop.scores]
             ELSE [threw |-> FALSE, error |-> NoError, analyzerBuilt |-> TRUE,
                   strategiesRun |-> loop.ran, phase1Scores |-> loop.scores,
                   overallScores |-> adjusted, sortedCandidates |-> sorted,
                   greedySelected |-> greedy, selectedNumbers |-> selected,
                   predicted |-> FinalValidation(selected, adjusted)]

EngineInit ==
    /\ \/ historyGiven = TRUE /\ historyData \in EngineHistories
       \/ historyGiven = FALSE /\ historyData = <<>>
    /\ strategyOutcomes \in OutcomeProfiles
    /\ pc = "ready"
    /\ call = NotCalled

\* a call of predictNextDay by the worker
predictNextDay ==
    /\ pc = "ready"
    /\ call' = PredictNextDay(historyGiven, historyData, strategyOutcomes)
    /\ pc' = IF call'.threw THEN "failed" ELSE "predicted"
    /\ UNCHANGED <<historyGiven, historyData, strategyOutcomes>>

-----------------------------------------------------------------------------
(* DataAnalyzer: construction and getGanStatus *)

\* how many days the histories given to the analyzer have at most
MaxGanDays == 4

\* the numbers a day of these histories lands
GanDayPalette == {<<<<0, 0>>>>, <<<<0, 0>>, <<9, 9>>>>, <<<<4, 2>>, <<0, 7>>, <<4, 2>>>>}

GanHistories ==
    UNION {[1..n -> {PrepareDay(numbers) : numbers \in GanDayPalette}] : n \in 0..MaxGanDays}

MaxWindowDays == 3

\* days that land a number and its reverse, alone or among others
WindowDayPalette ==
    GanDayPalette \cup {<<<<1, 2>>, <<4, 2>>, <<2, 1>>>>, <<<<1, 2>>, <<2, 4>>>>}

WindowHistories ==
    UNION {[1..n -> {PrepareDay(numbers) : numbers \in WindowDayPalette}] :
               n \in 0..MaxWindowDays}

MaxLookback == 2

\* windows shorter than, as long as and longer than the histories, and the
\* default LOOKBACK.MEDIUM
Lookbacks == 0..MaxLookback \cup {MaxWindowDays, MaxWindowDays + 1, LOOKBACK.MEDIUM}

AnalyzerInit ==
    /\ analyzerHistory \in GanHistories \cup WindowHistories
    /\ analyzerPc = "ready"
    /\ ganMap = <<>>
    /\ daysLookback \in Lookbacks
    /\ answer = <<>>

AnalyzerIdle ==
    /\ analyzerHistory = <<>>
    /\ analyzerPc = "idle"
    /\ ganMap = <<>>
    /\ daysLookback = 0
    /\ answer = <<>>

\* new DataAnalyzer(historyData).getGanStatus()
queryGanStatus ==
    /\ analyzerPc = "ready"
    /\ IF DataAnalyzerRejects(TRUE, analyzerHistory)
       THEN /\ analyzerPc' = "failed"
            /\ ganMap' = <<>>
       ELSE /\ analyzerPc' = "queried"
            /\ ganMap' = getGanStatus(analyzerHistory) @@ <<>>
    /\ UNCHANGED <<analyzerHistory, daysLookback, answer>>

\* new DataAnalyzer(historyData).getNumbersFrequency(daysLookback)
queryNumbersFrequency ==
    /\ analyzerPc = "ready"
    /\ IF DataAnalyzerRejects(TRUE, analyzerHistory)
       THEN /\ analyzerPc' = "failed"
            /\ answer' = <<>>
       ELSE /\ analyzerPc' = "getNumbersFrequency"
            /\ answer' = getNumbersFrequency(analyzerHistory, daysLookback) @@ <<>>
    /\ UNCHANGED <<analyzerHistory, daysLookback, ganMap>>

\* new DataAnalyzer(historyData).getReverseCoOccurrences(daysLookback)
queryReverseCoOccurrences ==
    /\ analyzerPc = "ready"
    /\ IF DataAnalyzerRejects(TRUE, analyzerHistory)
       THEN /\ analyzerPc' = "failed"
            /\ answer' = <<>>
       ELSE /\ analyzerPc' = "getReverseCoOccurrences"
            /\ answer' = getReverseCoOccurrences(analyzerHistory, daysLookback) @@ <<>>
    /\ UNCHANGED <<analyzerHistory, daysLookback, ganMap>>

\* new DataAnalyzer(historyData).getGanTotalsStatus()
queryGanTotalsStatus ==
    /\ analyzerPc = "ready"
    /\ IF DataAnalyzerRejects(TRUE, analyzerHistory)
       THEN /\ analyzerPc' = "failed"
            /\ answer' = <<>>
       ELSE /\ analyzerPc' = "getGanTotalsStatus"
            /\ answer' = getGanTotalsStatus(analyzerHistory) @@ <<>>
    /\ UNCHANGED <<analyzerHistory, daysLookback, ganMap>>

\* new DataAnalyzer(historyData).getLoRoiCandidates(daysLookback,
\* mustBeConsecutive)
queryLoRoiCandidates ==
    /\ analyzerPc = "ready"
    /\ IF DataAnalyzerRejects(TRUE, analyzerHistory)
       THEN /\ analyzerPc' = "failed"
            /\ answer' = <<>>
       ELSE /\ analyzerPc' = "getLoRoiCandidates"
            /\ \E mustBeConsecutive \in BOOLEAN :
                   answer' = [mustBeConsecutive |-> mustBeConsecutive,
                              loRoiCounts |->
                                  getLoRoiCandidates(analyzerHistory, daysLookback,
                                                     mustBeConsecutive) @@ <<>>]
    /\ UNCHANGED <<analyzerHistory, daysLookback, ganMap>>

\* the arguments minOccurrences and maxPeriod of a call; 3 and 7 are the
\* defaults
BridgeArguments ==
    {[minOccurrences |-> 3, maxPeriod |-> 7], [minOccurrences |-> 2, maxPeriod |-> 7],
     [minOccurrences |-> 2, maxPeriod |-> 1], [minOccurrences |-> 1, maxPeriod |-> 2]}

\* new DataAnalyzer(historyData).getConsistentPeriodBridge(minOccurrences,
\* maxPeriod, daysLookback)
queryConsistentPeriodBridge ==
    /\ analyzerPc = "ready"
    /\ IF DataAnalyzerRejects(TRUE, analyzerHistory)
       THEN /\ analyzerPc' = "failed"
            /\ answer' = <<>>
       ELSE /\ analyzerPc' = "getConsistentPeriodBridge"
            /\ \E arguments \in BridgeArguments :
                   answer' = [minOccurrences |-> arguments.minOccurrences,
                              maxPeriod |-> arguments.maxPeriod,
                              bridgeCandidates |->
                                  getConsistentPeriodBridge(analyzerHistory,
                                      arguments.minOccurrences, arguments.maxPeriod,
                                      daysLookback)]
    /\ UNCHANGED <<analyzerHistory, daysLookback, ganMap>>

\* new DataAnalyzer(historyData).getAllPairCoOccurrences(daysLookback)
queryAllPairCoOccurrences ==
    /\ analyzerPc = "ready"
    /\ IF DataAnalyzerRejects(TRUE, analyzerHistory)
       THEN /\ analyzerPc' = "failed"
            /\ answer' = <<>>
       ELSE /\ analyzerPc' = "getAllPairCoOccurrences"
            /\ answer' = getAllPairCoOccurrences(analyzerHistory, daysLookback) @@ <<>>
    /\ UNCHANGED <<analyzerHistory, daysLookback, ganMap>>

-----------------------------------------------------------------------------
(* Backtester.runBacktest *)

COST_PER_LOTTO_POINT == 23000
REWARD_PER_LOTTO_POINT_HIT == 80000
COST_PER_DAY_PREDICTION == NUM_PREDICTED_LOTTO_NUMBERS * COST_PER_LOTTO_POINT

\* every how many days the environment makes predictNextDay throw, when it does
FaultStride == 40

BacktestHistories ==
    {MakeHistory("cycle", MIN_HISTORY_FOR_ANALYSIS),
     MakeHistory("cycle", MIN_HISTORY_FOR_ANALYSIS + 1),
     MakeHistory("block", MIN_HISTORY_FOR_ANALYSIS + BACKTEST_WINDOW_SIZE - 1),
     MakeHistory("block", MIN_HISTORY_FOR_ANALYSIS + BACKTEST_WINDOW_SIZE),
     MakeHistory("cycle", MIN_HISTORY_FOR_ANALYSIS + BACKTEST_WINDOW_SIZE + ExtraDays)}

BacktestProfiles ==
    {[s \in StrategyIdx |-> "lastDay"],
     [s \in StrategyIdx |-> IF s = 1 THEN "throws" ELSE MixedProfile[s]]}

FaultSchedules(history) ==
    {{}, {d \in 0..Len(history) : d % FaultStride = 0}}

\* the locals of an iteration, before the first
NoDay ==
    [index |-> -1, attempted |-> FALSE, trainingLength |-> 0, correctCount |-> 0]

NotSimulated == [threw |-> FALSE, numbers |-> <<>>]

NoStats == [kind |-> "none"]

BacktestInit ==
    /\ fullHistoryData \in BacktestHistories
    /\ backtestOutcomes \in BacktestProfiles
    /\ engineFaults \in FaultSchedules(fullHistoryData)
    /\ backtestPc = "ready"
    /\ loopIndex = 0
    /\ totalDaysTested = 0
    /\ totalCorrectNumbers = 0
    /\ daysWithHighAccuracy = 0
    /\ daysMeetingProfitThreshold = 0
    /\ dailyCorrectCounts = <<>>
    /\ totalInvestment = 0
    /\ totalGains = 0
    /\ dailyNetProfits = <<>>
    /\ attemptedDays = <<>>
    /\ simulated = NotSimulated
    /\ otherSimulated = NotSimulated
    /\ day = NoDay
    /\ accuracyStats = NoStats

BacktestIdle ==
    /\ fullHistoryData = <<>>
    /\ backtestOutcomes = <<>>
    /\ engineFaults = {}
    /\ backtestPc = "idle"
    /\ loopIndex = 0
    /\ totalDaysTested = 0
    /\ totalCorrectNumbers = 0
    /\ daysWithHighAccuracy = 0
    /\ daysMeetingProfitThreshold = 0
    /\ dailyCorrectCounts = <<>>
    /\ totalInvestment = 0
    /\ totalGains = 0
    /\ dailyNetProfits = <<>>
    /\ attemptedDays = <<>>
    /\ simulated = NotSimulated
    /\ otherSimulated = NotSimulated
    /\ day = NoDay
    /\ accuracyStats = NoStats

EngineIdle ==
    /\ historyGiven = FALSE
    /\ historyData = <<>>
    /\ strategyOutcomes = <<>>
    /\ pc = "idle"
    /\ call = NotCalled

\* Backtester._getEmptyStats(reason)
_getEmptyStats(reason) ==
    [kind |-> "stats", totalDaysTested |-> 0, daysWithHighAccuracy |-> 0,
     daysMeetingProfitThreshold |-> 0, totalInvestment |-> 0, totalGains |-> 0,
     netProfit |-> 0, dailyCorrectCounts |-> <<>>, dailyNetProfits |-> <<>>,
     reason |-> reason]

\* fullHistoryData.length - 1
MaxTestableIndex(history) == Len(history) - 1

\* runBacktest up to its loop: the length check and the start of the window.
\* When the window would start before MIN_HISTORY_FOR_PREDICTION, the
\* assignment that moves the start reads MIN_HISTORY_FOR_ANALYSIS, a name no
\* script declares: the read throws a ReferenceError, which leaves runBacktest.
runBacktestStart ==
    /\ backtestPc = "ready"
    /\ LET MIN_HISTORY_FOR_PREDICTION == MIN_HISTORY_FOR_ANALYSIS
           BACKTEST_WINDOW == BACKTEST_WINDOW_SIZE
           actualBacktestStartIndex ==
               MaxTestableIndex(fullHistoryData) - BACKTEST_WINDOW + 1
       IN  IF Len(fullHistoryData) < MIN_HISTORY_FOR_PREDICTION + 1
           THEN /\ backtestPc' = "returned"
                /\ accuracyStats' = _getEmptyStats("not-enough-history")
                /\ loopIndex' = loopIndex
           ELSE IF actualBacktestStartIndex < MIN_HISTORY_FOR_PREDICTION
           THEN /\ backtestPc' = "threw"
                /\ accuracyStats' = [kind |-> "ReferenceError",
                                     name |-> "MIN_HISTORY_FOR_ANALYSIS"]
                /\ loopIndex' = loopIndex
           ELSE /\ backtestPc' = "loop"
                /\ accuracyStats' = accuracyStats
                /\ loopIndex' = actualBacktestStartIndex
    /\ UNCHANGED <<fullHistoryData, backtestOutcomes, engineFaults, totalDaysTested,
                   totalCorrectNumbers, daysWithHighAccuracy,
                   daysMeetingProfitThreshold, dailyCorrectCounts, totalInvestment,
                   totalGains, dailyNetProfits, attemptedDays, simulated,
                   otherSimulated, day>>

\* the training data reaching the day to predict
TrainingData_IncludesDay(history, dayIndex) == Slice(history, 0, dayIndex + 1)

\* fullHistoryData.slice(0, i)
TrainingData(history, dayIndex) == Slice(history, 0, dayIndex)

\* the call of predictNextDay in the try block
SimulatePrediction(trainingData, dayIndex, outcomes, faults) ==
    IF dayIndex \in faults
    THEN [threw |-> TRUE, numbers |-> <<>>]
    ELSE CHOOSE result \in
             {[threw |-> made.threw, numbers |-> made.predicted] :
                 made \in {PredictNextDay(TRUE, trainingData, outcomes)}} : TRUE

\* the count going over the landed numbers, one hit per landing
CorrectCount_PerLanding(simulatedPredictedNumbers, actualLandedNumbers) ==
    Cardinality({k \in 1..Len(actualLandedNumbers) :
                    Includes(simulatedPredictedNumbers, actualLandedNumbers[k])})

\* for (const predictedNum of simulatedPredictedNumbers)
\*     if (actualLandedNumbers.includes(predictedNum)) correctCount++
CorrectCount(simulatedPredictedNumbers, actualLandedNumbers) ==
    Cardinality({k \in 1..Len(simulatedPredictedNumbers) :
                    Includes(actualLandedNumbers, simulatedPredictedNumbers[k])})

\* the history with every record from dayIndex on replaced by another one
ReplacedFrom(history, dayIndex) ==
    [k \in 1..Len(history) |->
        IF k - 1 >= dayIndex THEN PrepareDay(DayNumbers("sparse", k)) ELSE history[k]]

\* the catch block without its totalDaysTested++
catchBlock_DayNotCounted ==
    /\ totalInvestment' = totalInvestment + COST_PER_DAY_PREDICTION
    /\ dailyCorrectCounts' = Append(dailyCorrectCounts, 0)
    /\ dailyNetProfits' = Append(dailyNetProfits, 0 - COST_PER_DAY_PREDICTION)
    /\ UNCHANGED <<totalDaysTested, totalCorrectNumbers, totalGains,
                   daysWithHighAccuracy, daysMeetingProfitThreshold>>

\* catch (e): the day is counted as a lost day
catchBlock ==
    /\ totalDaysTested' = totalDaysTested + 1
    /\ totalInvestment' = totalInvestment + COST_PER_DAY_PREDICTION
    /\ dailyCorrectCounts' = Append(dailyCorrectCounts, 0)
    /\ dailyNetProfits' = Append(dailyNetProfits, 0 - COST_PER_DAY_PREDICTION)
    /\ UNCHANGED <<totalCorrectNumbers, totalGains, daysWithHighAccuracy,
                   daysMeetingProfitThreshold>>

\* the try block pushing the day's gains, not its net profit
tryBlockAfterPrediction_GrossProfit(correctCount) ==
    /\ totalDaysTested' = totalDaysTested + 1
    /\ totalInvestment' = totalInvestment + COST_PER_DAY_PREDICTION
    /\ totalCorrectNumbers' = totalCorrectNumbers + correctCount
    /\ totalGains' = totalGains + correctCount * REWARD_PER_LOTTO_POINT_HIT
    /\ dailyCorrectCounts' = Append(dailyCorrectCounts, correctCount)
    /\ dailyNetProfits' =
           Append(dailyNetProfits, correctCount * REWARD_PER_LOTTO_POINT_HIT)
    /\ daysWithHighAccuracy' =
           IF correctCount >= HIGH_ACCURACY_THRESHOLD
           THEN daysWithHighAccuracy + 1 ELSE daysWithHighAccuracy
    /\ daysMeetingProfitThreshold' =
           IF correctCount >= PROFIT_THRESHOLD_DEFAULT
           THEN daysMeetingProfitThreshold + 1 ELSE daysMeetingProfitThreshold

\* the try block once predictNextDay has returned
tryBlockAfterPrediction(correctCount) ==
    /\ totalDaysTested' = totalDaysTested + 1
    /\ totalInvestment' = totalInvestment + COST_PER_DAY_PREDICTION
    /\ totalCorrectNumbers' = totalCorrectNumbers + correctCount
    /\ totalGains' = totalGains + correctCount * REWARD_PER_LOTTO_POINT_HIT
    /\ dailyCorrectCounts' = Append(dailyCorrectCounts, correctCount)
    /\ dailyNetProfits' =
           Append(dailyNetProfits,
                  correctCount * REWARD_PER_LOTTO_POINT_HIT - COST_PER_DAY_PREDICTION)
    /\ daysWithHighAccuracy' =
           IF correctCount >= HIGH_ACCURACY_THRESHOLD
           THEN daysWithHighAccuracy + 1 ELSE daysWithHighAccuracy
    /\ daysMeetingProfitThreshold' =
           IF correctCount >= PROFIT_THRESHOLD_DEFAULT
           THEN daysMeetingProfitThreshold + 1 ELSE daysMeetingProfitThreshold

\* One iteration of the loop of runBacktest, for day i: the skip of a day
\* with too little training data, or the try block and its catch.
backtestDay ==
    /\ backtestPc = "loop"
    /\ loopIndex <= MaxTestableIndex(fullHistoryData)
    /\ LET trainingData == TrainingData(fullHistoryData, loopIndex)
           actualLandedNumbers == fullHistoryData[loopIndex + 1].numbers
           skipped == Len(trainingData) < MIN_HISTORY_FOR_ANALYSIS
       IN  /\ simulated' =
                  IF skipped THEN NotSimulated
                  ELSE SimulatePrediction(trainingData, loopIndex,
                                          backtestOutcomes, engineFaults)
           /\ otherSimulated' =
                  IF skipped THEN NotSimulated
                  ELSE SimulatePrediction(
                           TrainingData(ReplacedFrom(fullHistoryData, loopIndex),
                                        loopIndex),
                           loopIndex, backtestOutcomes, engineFaults)
           /\ day' = [index |-> loopIndex,
                      attempted |-> ~skipped,
                      trainingLength |-> Len(trainingData),
                      correctCount |->
                          IF skipped \/ simulated'.threw THEN 0
                          ELSE CorrectCount(simulated'.numbers, actualLandedNumbers)]
    /\ IF ~day'.attempted
       THEN UNCHANGED <<totalDaysTested, totalInvestment, totalCorrectNumbers,
                        totalGains, dailyCorrectCounts, dailyNetProfits,
                        daysWithHighAccuracy, daysMeetingProfitThreshold,
                        attemptedDays>>
       ELSE /\ attemptedDays' = Append(attemptedDays, loopIndex)
            /\ IF simulated'.threw
               THEN catchBlock
               ELSE tryBlockAfterPrediction(day'.correctCount)
    /\ loopIndex' = loopIndex + 1
    /\ UNCHANGED <<fullHistoryData, backtestOutcomes, engineFaults, backtestPc,
                   accuracyStats>>

\* runBacktest after its loop: the statistics returned, as the counts and
\* sums they are formatted from
runBacktestReturn ==
    /\ backtestPc = "loop"
    /\ loopIndex > MaxTestableIndex(fullHistoryData)
    /\ backtestPc' = "returned"
    /\ accuracyStats' =
           [kind |-> "stats", totalDaysTested |-> totalDaysTested,
            daysWithHighAccuracy |-> daysWithHighAccuracy,
            daysMeetingProfitThreshold |-> daysMeetingProfitThreshold,
            totalInvestment |-> totalInvestment, totalGains |-> totalGains,
            netProfit |-> totalGains - totalInvestment,
            dailyCorrectCounts |-> dailyCorrectCounts,
            dailyNetProfits |-> dailyNetProfits, reason |-> "none"]
    /\ UNCHANGED <<fullHistoryData, backtestOutcomes, engineFaults, loopIndex,
                   totalDaysTested, totalCorrectNumbers, daysWithHighAccuracy,
                   daysMeetingProfitThreshold, dailyCorrectCounts, totalInvestment,
                   totalGains, dailyNetProfits, attemptedDays, simulated,
                   otherSimulated, day>>

-----------------------------------------------------------------------------
(* JavaScript values that cross the worker boundary.  A value is a record   *)
(* that carries its kind: a string is [string |-> ...], an array is         *)
(* [array |-> ...], an object is the record of its properties, and          *)
(* undefined is a value of its own.                                         *)

Undefined == [undefined |-> TRUE]

Str(text) == [string |-> text]

Arr(elements) == [array |-> elements]

Num(value) == [number |-> value]

\* obj.name, undefined when obj has no such property
Field(obj, name) == IF name \in DOMAIN obj THEN obj[name] ELSE Undefined

-----------------------------------------------------------------------------
(* DataParser.  A text is the sequence of its lines, and a line is what the *)
(* two patterns of parseRawData make of it:                                 *)
(*   "date"   dateRegex matches; date is the day it names, counted from the *)
(*            first day of the text, or NoCalendarDay when the digits name  *)
(*            no day of the calendar (a month 13)                           *)
(*   "loto"   headTailRegex matches: a head digit and the tails between the *)
(*            commas, each the sequence of its digits                       *)
(*   "other"  neither matches                                               *)
(*   "blank"  nothing but white space                                       *)

DateLine(date) == [kind |-> "date", date |-> date]

LotoLine(head, tails) == [kind |-> "loto", head |-> head, tails |-> tails]

OtherLine == [kind |-> "other"]

BlankLine == [kind |-> "blank"]

NoCalendarDay == -1

\* rawData.split('\n') ... const line = lines[i].trim(); if (!line) continue
SplitLines(text) == SelectSeq(text, LAMBDA line : line.kind # "blank")

\* headDigit + tail.padStart(1, '0') for each tail, kept when 2 characters long
FullNumbers(line) ==
    LET padStart1(tail) == IF Len(tail) < 1 THEN <<0>> ELSE tail
        fullNumber == [t \in 1..Len(line.tails) |-> <<line.head>> \o padStart1(line.tails[t])]
    IN  SelectSeq(fullNumber, LAMBDA n : Len(n) = 2)

\* what the lines lo..hi push to dataByDate[currentDateStr]
RECURSIVE PushedBy(_, _, _)
PushedBy(lines, lo, hi) ==
    IF lo > hi THEN <<>>
    ELSE (IF lines[lo].kind = "loto" THEN FullNumbers(lines[lo]) ELSE <<>>)
             \o PushedBy(lines, lo + 1, hi)

\* parseRawData(rawData) of a string: the object returned, a function from the
\* dates found to the numbers of each; a date line starts its date afresh
parseRawData(text) ==
    LET lines == SplitLines(text)
        dateLines == SelectSeq([k \in 1..Len(lines) |-> k],
                               LAMBDA k : lines[k].kind = "date")
        count == Len(dateLines)
        dateOf(j) == lines[dateLines[j]].date
        lastOf(date) ==
            CHOOSE j \in 1..count :
                /\ dateOf(j) = date
                /\ \A later \in (j + 1)..count : dateOf(later) # date
        pushed(j) ==
            PushedBy(lines, dateLines[j] + 1,
                     IF j < count THEN dateLines[j + 1] - 1 ELSE Len(lines))
    IN  [date \in {dateOf(j) : j \in 1..count} |-> pushed(lastOf(date))] @@ <<>>

\* organizeData(parsedData): the entries of the dates that are calendar days,
\* sorted by date; of an entry the model keeps the numbers
organizeData(parsedData) ==
    LET valid == {date \in DOMAIN parsedData : date # NoCalendarDay}
        latest == CHOOSE date \in valid : \A other \in valid : other <= date
        sorted == IF valid = {} THEN <<>>
                  ELSE SelectSeq([k \in 1..(latest + 1) |-> k - 1],
                                 LAMBDA date : date \in valid)
    IN  [k \in 1..Len(sorted) |-> parsedData[sorted[k]]]

-----------------------------------------------------------------------------
(* The texts given to the worker: the days of a generated history written   *)
(* in the input format, bare or among lines the parser has to skip          *)

\* day `date` landing `numbers`: its date line, then a line for each head
\* digit that has numbers, listing their tails
DayLines(date, numbers) ==
    <<DateLine(date)>> \o
    SelectSeq([h \in 1..10 |->
                  LotoLine(h - 1,
                           LET ofHead == SelectSeq(numbers, LAMBDA n : n[1] = h - 1)
                           IN  [t \in 1..Len(ofHead) |-> <<ofHead[t][2]>>])],
              LAMBDA line : Len(line.tails) > 0)

\* the days lo..hi of a history of the given shape
RECURSIVE TextOfDays(_, _, _)
TextOfDays(shape, lo, hi) ==
    IF lo > hi THEN <<>>
    ELSE IF lo = hi THEN DayLines(lo, DayNumbers(shape, lo))
    ELSE LET mid == (lo + hi) \div 2
         IN  TextOfDays(shape, lo, mid) \o TextOfDays(shape, mid + 1, hi)

TextOf(shape, length) == TextOfDays(shape, 0, length - 1)

\* a text with, around the days: blank lines, a heading, a data line before
\* any date, a date that is no calendar day, a second entry for day 0, and
\* tails of no digit and of two digits
Messy(text) ==
    <<BlankLine, OtherLine, LotoLine(9, <<<<9>>>>),
      DateLine(NoCalendarDay), LotoLine(1, <<<<1>>>>)>>
        \o text
        \o <<DateLine(0), OtherLine, LotoLine(4, <<<<2>>, <<>>, <<4, 2>>>>), BlankLine>>

WorkerTexts ==
    {<<>>,
     <<BlankLine, BlankLine>>,
     <<OtherLine, LotoLine(0, <<<<7>>>>)>>,
     Messy(<<>>),
     TextOf("cycle", MIN_HISTORY_FOR_ANALYSIS - 1),
     TextOf("cycle", MIN_HISTORY_FOR_ANALYSIS),
     Messy(TextOf("cycle", MIN_HISTORY_FOR_ANALYSIS + 1)),
     TextOf("cycle", MIN_HISTORY_FOR_ANALYSIS + BACKTEST_WINDOW_SIZE)}

\* event.data of the messages sent to the worker: the payload missing,
\* without rawData, or with a text
WorkerMessages ==
    {[type |-> type, payload |-> payload] :
        type \in {"processData", "runBacktest", "ping"},
        payload \in {[rawData |-> Str(text)] : text \in WorkerTexts}
                        \cup {[other |-> Str(<<>>)]}}
        \cup {[type |-> type] : type \in {"processData", "runBacktest", "ping"}}

NoMessage == [none |-> TRUE]

\* what the strategies of the worker's engine return
WorkerProfiles == {[s \in StrategyIdx |-> "lastDay"]}

-----------------------------------------------------------------------------
(* worker.js: self.onmessage *)

NotPrepared == [reached |-> "nothing", exception |-> "none", days |-> <<>>]

\* const rawData = payload.rawData; ... parseRawData, organizeData,
\* prepareHistoricalData: how far these get and what they leave.  Reading
\* rawData of an undefined payload throws a TypeError, and so does
\* rawData.split when rawData is not a string.
PreparedFrom(message) ==
    LET payload == Field(message, "payload")
        rawData == Field(payload, "rawData")
    IN  IF payload = Undefined
        THEN [reached |-> "payload", exception |-> "TypeError", days |-> <<>>]
        ELSE IF "string" \notin DOMAIN rawData
        THEN [reached |-> "parseRawData", exception |-> "TypeError", days |-> <<>>]
        ELSE [reached |-> "preparedData", exception |-> "none",
              days |-> prepareHistoricalData(
                           organizeData(parseRawData(rawData.string)))]

StatusMessage(text) == [type |-> "status", payload |-> [text |-> text]]

\* the messages are delivered to the Worker object of the worker that posts
\* them: after a post, the object each message went through
PostedThrough(object, messages, before) ==
    [k \in 1..Len(messages) |-> IF k <= Len(before) THEN before[k] ELSE object]

\* `Đã chuẩn bị ${preparedData.length} ngày dữ liệu.`
PreparedStatus(length) ==
    [type |-> "status", payload |-> [text |-> "prepared", length |-> Num(length)]]

ErrorMessage(text) == [type |-> "error", payload |-> [text |-> text]]

\* the message of the catch block: `Lỗi xử lý dữ liệu: ${error.message}`
CaughtMessage(error) ==
    [type |-> "error", payload |-> [text |-> "processing-error", message |-> error]]

\* PredictionEngine.getActivatedStrategyCount()
getActivatedStrategyCount == Len(STRATEGY_WEIGHTS)

PredictionResult(made, prepared) ==
    [type |-> "predictionResult",
     payload |-> [predictedNumbers |-> Arr(made.predicted),
                  historyLength |-> Num(Len(prepared.days)),
                  activeStrategies |-> Num(getActivatedStrategyCount)]]

\* case 'processData' with the return after the no-valid-data error left out:
\* the handler goes on to predictNextDay, which rejects the empty history
ProcessDataPosts_NoReturn(prepared, made) ==
    IF prepared.reached = "payload"
    THEN <<CaughtMessage(prepared.exception)>>
    ELSE IF prepared.exception # "none"
    THEN <<StatusMessage("parsing"), CaughtMessage(prepared.exception)>>
    ELSE IF Len(prepared.days) = 0
    THEN <<StatusMessage("parsing"), ErrorMessage("no-valid-data"),
           PreparedStatus(0), StatusMessage("predicting"),
           CaughtMessage(InsufficientData.name)>>
    ELSE <<StatusMessage("parsing"), PreparedStatus(Len(prepared.days)),
           StatusMessage("predicting")>>
         \o (IF made.threw THEN <<CaughtMessage(made.error.name)>>
             ELSE <<PredictionResult(made, prepared)>>)

\* case 'processData': the messages posted, `made` being what predictNextDay
\* did when the handler got to it
ProcessDataPosts(prepared, made) ==
    IF prepared.reached = "payload"
    THEN <<CaughtMessage(prepared.exception)>>
    ELSE IF prepared.exception # "none"
    THEN <<StatusMessage("parsing"), CaughtMessage(prepared.exception)>>
    ELSE IF Len(prepared.days) = 0
    THEN <<StatusMessage("parsing"), ErrorMessage("no-valid-data")>>
    ELSE <<StatusMessage("parsing"), PreparedStatus(Len(prepared.days)),
           StatusMessage("predicting")>>
         \o (IF made.threw THEN <<CaughtMessage(made.error.name)>>
             ELSE <<PredictionResult(made, prepared)>>)

\* whether the handler of processData gets to predictNextDay
ReachesEngine(prepared) == prepared.exception = "none" /\ Len(prepared.days) > 0

onmessageProcessData ==
    /\ workerPc = "received"
    /\ inbox.type = "processData"
    /\ preparedData' = PreparedFrom(inbox)
    /\ IF ReachesEngine(preparedData')
       THEN /\ historyGiven' = TRUE
            /\ historyData' = preparedData'.days
            /\ call' = PredictNextDay(TRUE, preparedData'.days, strategyOutcomes)
            /\ pc' = IF call'.threw THEN "failed" ELSE "predicted"
            /\ UNCHANGED strategyOutcomes
       ELSE UNCHANGED engineVars
    /\ posted' = posted \o ProcessDataPosts(preparedData', call')
    /\ workerPc' = "done"
    /\ postedBy' = PostedThrough(worker, posted', postedBy)
    /\ UNCHANGED <<dataInput, ui, worker, clicks, inbox, handled>>

\* case 'runBacktest' up to the call of Backtester.runBacktest
onmessageRunBacktest ==
    /\ workerPc = "received"
    /\ inbox.type = "runBacktest"
    /\ preparedData' = PreparedFrom(inbox)
    /\ IF preparedData'.reached = "payload"
       THEN /\ posted' = Append(posted, CaughtMessage(preparedData'.exception))
            /\ workerPc' = "done"
            /\ UNCHANGED <<fullHistoryData, backtestPc>>
       ELSE IF preparedData'.exception # "none"
       THEN /\ posted' = posted \o <<StatusMessage("backtesting"),
                                     CaughtMessage(preparedData'.exception)>>
            /\ workerPc' = "done"
            /\ UNCHANGED <<fullHistoryData, backtestPc>>
       ELSE IF Len(preparedData'.days) = 0
       THEN /\ posted' = posted \o <<StatusMessage("backtesting"),
                                     ErrorMessage("no-history-for-backtest")>>
            /\ workerPc' = "done"
            /\ UNCHANGED <<fullHistoryData, backtestPc>>
       ELSE /\ posted' = Append(posted, StatusMessage("backtesting"))
            /\ workerPc' = "backtesting"
            /\ fullHistoryData' = preparedData'.days
            /\ backtestPc' = "ready"
    /\ UNCHANGED <<backtestOutcomes, engineFaults, loopIndex, totalDaysTested,
                   totalCorrectNumbers, daysWithHighAccuracy,
                   daysMeetingProfitThreshold, dailyCorrectCounts, totalInvestment,
                   totalGains, dailyNetProfits, attemptedDays, simulated,
                   otherSimulated, day, accuracyStats>>
    /\ postedBy' = PostedThrough(worker, posted', postedBy)
    /\ UNCHANGED <<dataInput, ui, worker, clicks, inbox, handled>>

\* case 'runBacktest' from the return of Backtester.runBacktest, or from the
\* catch block when it threw
onmessageBacktestResult ==
    /\ workerPc = "backtesting"
    /\ backtestPc \in {"returned", "threw"}
    /\ posted' = Append(posted,
                        IF backtestPc = "returned"
                        THEN [type |-> "backtestResult", payload |-> accuracyStats]
                        ELSE CaughtMessage(accuracyStats.kind))
    /\ workerPc' = "done"
    /\ postedBy' = PostedThrough(worker, posted', postedBy)
    /\ UNCHANGED <<dataInput, ui, worker, clicks, inbox, preparedData, handled>>

\* default: an unknown command
onmessageDefault ==
    /\ workerPc = "received"
    /\ inbox.type \notin {"processData", "runBacktest"}
    /\ posted' = Append(posted, ErrorMessage("unknown-command"))
    /\ workerPc' = "done"
    /\ postedBy' = PostedThrough(worker, posted', postedBy)
    /\ UNCHANGED <<dataInput, ui, worker, clicks, inbox, preparedData, handled>>

-----------------------------------------------------------------------------
(* script.js: the page *)

NotAvailable == [text |-> "N/A"]

\* the page before the first click
InitialUi ==
    [loading |-> FALSE, disabled |-> FALSE, alerted |-> FALSE, threw |-> FALSE,
     predictionResult |-> [shows |-> "nothing"],
     summaryTotalDays |-> NotAvailable,
     summaryStrategyCount |-> NotAvailable,
     summaryProcessingTime |-> NotAvailable,
     backtestStats |-> NotAvailable]

\* dataInput.value.trim(): the text without its leading and trailing blank lines
Trim(text) ==
    LET inked == {k \in 1..Len(text) : text[k].kind # "blank"}
    IN  IF \A k \in 1..Len(text) : text[k].kind = "blank" THEN <<>>
        ELSE SubSeq(text,
                    CHOOSE k \in 1..Len(text) :
                        k \in inked /\ \A j \in 1..(k - 1) : j \notin inked,
                    CHOOSE k \in 1..Len(text) :
                        k \in inked /\ \A j \in (k + 1)..Len(text) : j \notin inked)

\* resetAllStatsDisplay()
resetAllStatsDisplay(page) ==
    [page EXCEPT !.summaryTotalDays = NotAvailable,
                 !.summaryStrategyCount = NotAvailable,
                 !.summaryProcessingTime = NotAvailable,
                 !.backtestStats = NotAvailable]

\* value || 'N/A'
OrNotAvailable(value) ==
    IF value = Undefined \/ value = Num(0) THEN NotAvailable ELSE value

\* worker.onmessage of the page, for one message
onmessageOfPage(page, message) ==
    LET payload == Field(message, "payload")
        stopped == [page EXCEPT !.loading = FALSE, !.disabled = FALSE,
                                !.summaryProcessingTime = [text |-> "seconds"]]
    IN  IF message.type = "predictionResult"
        THEN LET predictedNumbers == Field(payload, "predictedNumbers")
                 statistics == Field(payload, "accuracyStats")
                 analysisSummary == Field(payload, "analysisSummary")
                 numbersShown ==
                     [stopped EXCEPT !.predictionResult =
                         IF "array" \in DOMAIN predictedNumbers
                                /\ Len(predictedNumbers.array) > 0
                         THEN [shows |-> "numbers", numbers |-> predictedNumbers.array]
                         ELSE [shows |-> "no-prediction"]]
             IN  IF analysisSummary = Undefined
                 THEN \* analysisSummary.totalHistoryDays: a TypeError ends the handler
                      [numbersShown EXCEPT !.threw = TRUE]
                 ELSE [numbersShown EXCEPT
                          !.summaryTotalDays =
                              OrNotAvailable(Field(analysisSummary, "totalHistoryDays")),
                          !.summaryStrategyCount =
                              OrNotAvailable(Field(analysisSummary, "activeStrategyCount")),
                          !.backtestStats =
                              IF statistics = Undefined THEN NotAvailable
                              ELSE [text |-> "statistics"]]
        ELSE IF message.type = "error"
        THEN resetAllStatsDisplay(
                 [stopped EXCEPT !.predictionResult =
                                     [shows |-> "error", payload |-> payload]])
        ELSE IF message.type = "parsingError"
        THEN resetAllStatsDisplay(
                 [stopped EXCEPT !.predictionResult =
                                     [shows |-> "parsing-error", payload |-> payload]])
        ELSE stopped

\* how many clicks on the process button a run goes through
MaxClicks == 2

\* the click handler without worker.terminate(): the messages of the Worker
\* held so far that the page has not handled stay in line for it
click_NotTerminated ==
    /\ ~ui.disabled
    /\ clicks < MaxClicks
    /\ clicks' = clicks + 1
    /\ LET rawData == Trim(dataInput)
       IN  IF rawData = <<>>
           THEN /\ ui' = [ui EXCEPT !.alerted = TRUE]
                /\ UNCHANGED <<worker, inbox, workerPc, preparedData, posted, handled,
                               postedBy>>
                /\ UNCHANGED <<engineVars, backtestVars>>
           ELSE /\ ui' = resetAllStatsDisplay(
                             [ui EXCEPT !.loading = TRUE, !.disabled = TRUE,
                                        !.alerted = FALSE,
                                        !.predictionResult = [shows |-> "nothing"]])
                \* worker = new Worker('worker.js'): the new worker starts
                \* from its scripts
                /\ worker' = <<clicks'>>
                /\ posted' = SubSeq(posted, handled + 1, Len(posted))
                /\ handled' = 0
                /\ postedBy' = SubSeq(postedBy, handled + 1, Len(postedBy))
                /\ preparedData' = NotPrepared
                /\ historyGiven' = FALSE
                /\ historyData' = <<>>
                /\ pc' = "idle"
                /\ call' = NotCalled
                /\ fullHistoryData' = <<>>
                /\ backtestPc' = "idle"
                /\ loopIndex' = 0
                /\ totalDaysTested' = 0
                /\ totalCorrectNumbers' = 0
                /\ daysWithHighAccuracy' = 0
                /\ daysMeetingProfitThreshold' = 0
                /\ dailyCorrectCounts' = <<>>
                /\ totalInvestment' = 0
                /\ totalGains' = 0
                /\ dailyNetProfits' = <<>>
                /\ attemptedDays' = <<>>
                /\ simulated' = NotSimulated
                /\ otherSimulated' = NotSimulated
                /\ day' = NoDay
                /\ accuracyStats' = NoStats
                /\ UNCHANGED <<strategyOutcomes, backtestOutcomes, engineFaults>>
                \* worker.postMessage({ type: 'processData', data: rawData })
                /\ inbox' = [type |-> "processData", data |-> Str(rawData)]
                /\ workerPc' = "received"
    /\ UNCHANGED dataInput

\* the click handler of processDataBtn; a disabled button receives no click
click ==
    /\ ~ui.disabled
    /\ clicks < MaxClicks
    /\ clicks' = clicks + 1
    /\ LET rawData == Trim(dataInput)
       IN  IF rawData = <<>>
           THEN /\ ui' = [ui EXCEPT !.alerted = TRUE]
                /\ UNCHANGED <<worker, inbox, workerPc, preparedData, posted, handled,
                               postedBy>>
                /\ UNCHANGED <<engineVars, backtestVars>>
           ELSE /\ ui' = resetAllStatsDisplay(
                             [ui EXCEPT !.loading = TRUE, !.disabled = TRUE,
                                        !.alerted = FALSE,
                                        !.predictionResult = [shows |-> "nothing"]])
                \* worker.terminate(); worker = new Worker('worker.js'): the
                \* messages of the old worker not yet handled are dropped, and
                \* the new worker starts from its scripts
                /\ worker' = <<clicks'>>
                /\ posted' = <<>>
                /\ handled' = 0
                /\ postedBy' = <<>>
                /\ preparedData' = NotPrepared
                /\ historyGiven' = FALSE
                /\ historyData' = <<>>
                /\ pc' = "idle"
                /\ call' = NotCalled
                /\ fullHistoryData' = <<>>
                /\ backtestPc' = "idle"
                /\ loopIndex' = 0
                /\ totalDaysTested' = 0
                /\ totalCorrectNumbers' = 0
                /\ daysWithHighAccuracy' = 0
                /\ daysMeetingProfitThreshold' = 0
                /\ dailyCorrectCounts' = <<>>
                /\ totalInvestment' = 0
                /\ totalGains' = 0
                /\ dailyNetProfits' = <<>>
                /\ attemptedDays' = <<>>
                /\ simulated' = NotSimulated
                /\ otherSimulated' = NotSimulated
                /\ day' = NoDay
                /\ accuracyStats' = NoStats
                /\ UNCHANGED <<strategyOutcomes, backtestOutcomes, engineFaults>>
                \* worker.postMessage({ type: 'processData', data: rawData })
                /\ inbox' = [type |-> "processData", data |-> Str(rawData)]
                /\ workerPc' = "received"
    /\ UNCHANGED dataInput

\* worker.onmessage of the page handling the oldest message not yet handled
pageOnmessage ==
    /\ worker # <<>>
    /\ handled < Len(posted)
    /\ ui' = onmessageOfPage(ui, posted[handled + 1])
    /\ handled' = handled + 1
    /\ UNCHANGED <<dataInput, worker, clicks, inbox, workerPc, preparedData, posted,
                   postedBy>>

WorkerIdle ==
    /\ dataInput = <<>>
    /\ ui = InitialUi
    /\ worker = <<>>
    /\ clicks = 0
    /\ inbox = NoMessage
    /\ workerPc = "none"
    /\ preparedData = NotPrepared
    /\ posted = <<>>
    /\ handled = 0
    /\ postedBy = <<>>

\* the page with a text in its input box, or a worker that was sent a message
WorkerInit ==
    /\ ui = InitialUi
    /\ worker = <<>>
    /\ clicks = 0
    /\ preparedData = NotPrepared
    /\ posted = <<>>
    /\ handled = 0
    /\ postedBy = <<>>
    /\ \/ dataInput \in WorkerTexts /\ inbox = NoMessage /\ workerPc = "none"
       \/ dataInput = <<>> /\ inbox \in WorkerMessages /\ workerPc = "received"

\* the page as the click handler leaves it when it starts a request
Requested ==
    resetAllStatsDisplay([InitialUi EXCEPT !.loading = TRUE, !.disabled = TRUE])

\* the page after the click that started a request, with the request at the
\* worker in the form self.onmessage reads, { type, payload: { rawData } }.
\* (The click handler itself posts { type, data }, which the worker answers
\* with one 'error' message and nothing else.)
PageInit ==
    /\ dataInput \in WorkerTexts
    /\ Trim(dataInput) # <<>>
    /\ ui = Requested
    /\ worker = <<1>>
    /\ clicks = 1
    /\ inbox \in {[type |-> type, payload |-> [rawData |-> Str(Trim(dataInput))]] :
                     type \in {"processData", "runBacktest", "ping"}}
    /\ workerPc = "received"
    /\ preparedData = NotPrepared
    /\ posted = <<>>
    /\ handled = 0
    /\ postedBy = <<>>

-----------------------------------------------------------------------------
(* Prediction strategies.  predict(analyzer) returns a Map from lotto       *)
(* numbers to scores or throws; a score is kept in units of 1/ScoreScale,   *)
(* which makes the factors 0.5, 0.7, 0.8 and 1.5 exact.                     *)

\* what a call did: the value it returned or the error it threw
Returned(value) == [threw |-> FALSE, error |-> "none", value |-> value]

Thrown(error) == [threw |-> TRUE, error |-> error, value |-> <<>>]

NotAsked == [threw |-> FALSE, error |-> "none", value |-> <<>>]

\* DataPreparer: kepNumbersLanded, the doubles among the day's unique numbers
kepNumbersLanded(dayInfo) == SelectSeq(dayInfo.uniqueNumbers, isKep)

\* DataPreparer: ganKepLanded, the unique numbers whose digits are equal or
\* next to each other
ganKepLanded(dayInfo) ==
    SelectSeq(dayInfo.uniqueNumbers,
              LAMBDA num : (num[1] - num[2] \in {1, -1}) \/ num[1] = num[2])

allKepNumbers == {num \in Universe : isKep(num)}

\* getKepNumbersFrequency(daysLookback): every double starts at 0 and gains
\* one per day of the slice it landed on
getKepNumbersFrequency(history, lookback) ==
    LET recentHistory == getHistorySlice(history, lookback)
    IN  [kep \in allKepNumbers |->
            Sum([k \in 1..Len(recentHistory) |->
                    CountIn(kepNumbersLanded(recentHistory[k]), kep)])]

\* getGanKepNumbers(): getGanStatus() restricted to the doubles
getGanKepNumbers(history) ==
    LET ganStatus == getGanStatus(history)
    IN  [kep \in allKepNumbers |-> ganStatus[kep]]

\* StrategyKepNumbers.predict.  The Map starts with the ten doubles at 0.
\*   _applyKepFrequencyScores: count * 15 over LOOKBACK.SHORT and count * 5
\*     over LOOKBACK.MEDIUM;
\*   _applyYesterdayKepScores: for each double of the last day, 40 to itself,
\*     20 to the next and to the previous double, and 15 to every entry gnk
\*     of the last day's ganKepLanded by scores.set(gnk, scores.get(gnk) + 15):
\*     a gnk that is no double has no score yet, and undefined + 15 is NaN;
\*   _applyLongTermKepGanScores: 30 for a double gone GAN_RANGE_MEDIUM[0] to
\*     GAN_RANGE_LONG[1] days, times 0.7 for one gone longer than
\*     GAN_RANGE_ULTRA_GAN[1];
\*   the final clamp walks allKepNumbers only.
StrategyKepNumbers(history) ==
    LET lastDay == history[Len(history)]
        kepFreqShort == getKepNumbersFrequency(history, LOOKBACK.SHORT)
        kepFreqMedium == getKepNumbersFrequency(history, LOOKBACK.MEDIUM)
        yesterdayKep == kepNumbersLanded(lastDay)
        lastGanKep == ganKepLanded(lastDay)
        ganKepStatus == getGanKepNumbers(history)
        nextKep(num) == <<(num[1] + 1) % 10, (num[1] + 1) % 10>>
        prevKep(num) == <<(num[1] - 1 + 10) % 10, (num[1] - 1 + 10) % 10>>
        keys == allKepNumbers \cup
                    (IF Len(yesterdayKep) > 0 THEN Range(lastGanKep) ELSE {})
        afterFrequency ==
            [num \in allKepNumbers |->
                (kepFreqShort[num] * 15 + kepFreqMedium[num] * 5) * ScoreScale]
        afterYesterday ==
            [num \in keys |->
                IF num \notin allKepNumbers THEN NaN
                ELSE afterFrequency[num] + ScoreScale *
                        ( 40 * CountIn(yesterdayKep, num)
                        + 20 * Cardinality({k \in 1..Len(yesterdayKep) :
                                   /\ nextKep(yesterdayKep[k]) # yesterdayKep[k]
                                   /\ nextKep(yesterdayKep[k]) = num})
                        + 20 * Cardinality({k \in 1..Len(yesterdayKep) :
                                   /\ prevKep(yesterdayKep[k]) # yesterdayKep[k]
                                   /\ prevKep(yesterdayKep[k]) = num})
                        + 15 * Len(yesterdayKep) * CountIn(lastGanKep, num) )]
        afterGan ==
            [num \in keys |->
                IF num \notin allKepNumbers THEN afterYesterday[num]
                ELSE LET daysGone == ganKepStatus[num].daysGone
                         due == IF /\ daysGone >= GAN_RANGE_MEDIUM[1]
                                   /\ daysGone <= GAN_RANGE_LONG[2]
                                THEN afterYesterday[num] + 30 * ScoreScale
                                ELSE afterYesterday[num]
                     IN  IF daysGone > GAN_RANGE_ULTRA_GAN[2]
                         THEN (due * 7) \div 10
                         ELSE due]
    IN  Returned([num \in keys |->
                     IF num \in allKepNumbers
                     THEN Max(0, Min(OrZero(afterGan[num]),
                                     MAX_STRATEGY_SCORE * ScoreScale))
                     ELSE afterGan[num]])

\* WorkerUtils.averageArray: (arr) => arr.length === 0 ? 0 :
\* this.sumArray(arr) / arr.length, an arrow function of an object literal at
\* the top level of the script.  Its `this` is the script's, the worker's
\* global object in a classic script and undefined in a module; neither has
\* a sumArray, so the call on a non-empty array throws a TypeError.
averageArray(arr) ==
    IF Len(arr) = 0 THEN Returned(0) ELSE Thrown("TypeError")

\* WorkerUtils.standardDeviation: 0 below two values, else computed from
\* self.WorkerUtils.averageArray(arr), whose throw it passes on
standardDeviation(arr) ==
    IF Len(arr) < 2 THEN Returned(0) ELSE averageArray(arr)

\* the indices of the days a number landed on, ascending
Appearances(history, num) ==
    SelectSeq([k \in 1..Len(history) |-> k - 1],
              LAMBDA index : num \in Range(history[index + 1].uniqueNumbers))

\* the first call among those that threw, if any
FirstThrown(calls) ==
    calls[CHOOSE k \in 1..Len(calls) :
              /\ calls[k].threw
              /\ \A j \in 1..(k - 1) : ~calls[j].threw]

\* getHistoricalGanAnalysis(), the entry of one number: ganLengths are the
\* absences between its appearances, lastGanPeriod the absence at the end;
\* avgGan and stdDevGan are computed once ganLengths is not empty
HistoricalGanOf(history, num) ==
    LET appearances == Appearances(history, num)
        ganLengths == [j \in 1..Max(0, Len(appearances) - 1) |->
                          appearances[j + 1] - appearances[j] - 1]
        lastGanPeriod == IF Len(appearances) > 0
                         THEN Len(history) - 1 - appearances[Len(appearances)]
                         ELSE Len(history)
        avgGan == IF Len(ganLengths) > 0 THEN averageArray(ganLengths) ELSE Returned(0)
        stdDevGan == IF Len(ganLengths) > 0 THEN standardDeviation(ganLengths)
                     ELSE Returned(0)
    IN  IF avgGan.threw THEN avgGan
        ELSE IF stdDevGan.threw THEN stdDevGan
        ELSE Returned([ganLengths |-> ganLengths, avgGan |-> avgGan.value,
                       stdDevGan |-> stdDevGan.value, lastGanPeriod |-> lastGanPeriod])

\* getHistoricalGanAnalysis(): the entries in the order "00".."99"; the first
\* throw ends the call
getHistoricalGanAnalysis(history) ==
    LET entries == [i \in 1..100 |-> HistoricalGanOf(history, PadStart2(i - 1))] @@ <<>>
    IN  IF \E i \in 1..100 : entries[i].threw
        THEN FirstThrown(entries)
        ELSE Returned([num \in Universe |-> entries[ParseInt(num) + 1].value])

\* getNumberCycleAnalysis(minCycleCount), the entry of one number: from two
\* appearances on, cycles are the differences of successive appearances and
\* avgCycle, cycleVariance, consistencyScore and nextDueApprox are computed;
\* consistencyScore is in units of 1/ScoreScale
CycleInfoOf(history, num) ==
    LET appearances == Appearances(history, num)
        currentDayIndex == Len(history)
        lastSeenIndex == IF Len(appearances) > 0 THEN appearances[Len(appearances)]
                         ELSE -1
        daysSinceLast == IF lastSeenIndex # -1
                         THEN currentDayIndex - lastSeenIndex - 1
                         ELSE currentDayIndex
        cycles == [j \in 1..Max(0, Len(appearances) - 1) |->
                      appearances[j + 1] - appearances[j]]
        Info(used, avgCycle, cycleVariance, consistencyScore, nextDueApprox) ==
            [appearances |-> appearances, avgCycle |-> avgCycle,
             lastSeenIndex |-> lastSeenIndex, daysSinceLast |-> daysSinceLast,
             cycles |-> used, nextDueApprox |-> nextDueApprox,
             consistencyScore |-> consistencyScore, cycleVariance |-> cycleVariance]
    IN  IF Len(appearances) >= 2
        THEN LET avgCycle == averageArray(cycles)
                 cycleVariance == standardDeviation(cycles)
             IN  IF avgCycle.threw THEN avgCycle
                 ELSE IF cycleVariance.threw THEN cycleVariance
                 ELSE Returned(Info(cycles, avgCycle.value, cycleVariance.value,
                                    IF cycleVariance.value = 0 THEN ScoreScale
                                    ELSE ScoreScale \div (1 + cycleVariance.value),
                                    lastSeenIndex + avgCycle.value))
        ELSE Returned(Info(<<>>, 0, 0, 0, -1))

\* getNumberCycleAnalysis(minCycleCount): the entries in the order "00".."99";
\* the first throw ends the call
getNumberCycleAnalysis(history) ==
    LET entries == [i \in 1..100 |-> CycleInfoOf(history, PadStart2(i - 1))] @@ <<>>
    IN  IF \E i \in 1..100 : entries[i].threw
        THEN FirstThrown(entries)
        ELSE Returned([num \in Universe |-> entries[ParseInt(num) + 1].value])

\* StrategyGanNumbers.predict.  Every lotto number starts at 0.
\*   getGanStatus(), then getHistoricalGanAnalysis(), whose throw ends predict;
\*   _applyGanScoresByRange, for the five ranges: baseScore + (daysGone -
\*     minDays) * dayMultiplier for a number gone minDays..maxDays days;
\*   _applyRecentGanReturnersScore: for each of the last LOOKBACK.SHORT days
\*     but day 0, 20 to each number of the day that was gone at least
\*     GAN_RANGE_MEDIUM[0] days in the history before that day;
\*   _applyApproachingAverageGanScore: for a number with more than one gan
\*     length, gone avgGan -+ stdDevGan days and more than 0,
\*     30 * (1 - |daysGone - avgGan| / (stdDevGan || avgGan));
\*   _applyRecentHitFromGanPenalty: for a number that landed on the last day,
\*     at an index above 0, the previous gan length is asked of
\*     this.historyData.slice(0, lastSeenIndex) with `this` the strategy, which
\*     has no historyData: a TypeError; at index 0 it is 0 and nothing changes;
\*   the final clamp to [0, MAX_STRATEGY_SCORE].
StrategyGanNumbers(history) ==
    LET ganStatus == getGanStatus(history) @@ <<>>
        historicalGanAnalysis == getHistoricalGanAnalysis(history)
        ranges == << <<GAN_RANGE_SHORT, 10, 5>>, <<GAN_RANGE_MEDIUM, 40, 15>>,
                     <<GAN_RANGE_LONG, 60, 20>>, <<GAN_RANGE_SUPER_GAN, 25, 8>>,
                     <<GAN_RANGE_ULTRA_GAN, 10, 5>> >>
        ByRange(num) ==
            Sum([r \in 1..Len(ranges) |->
                    LET minDays == ranges[r][1][1]
                        maxDays == ranges[r][1][2]
                        daysGone == ganStatus[num].daysGone
                    IN  IF daysGone >= minDays /\ daysGone <= maxDays
                        THEN ranges[r][2] * ScoreScale
                                 + (daysGone - minDays) * ((ranges[r][3] * ScoreScale) \div 10)
                        ELSE 0])
        returnDays == {i \in (Len(history) - LOOKBACK.SHORT)..(Len(history) - 1) : i > 0}
        tempGanStatus == [i \in returnDays |-> getGanStatus(SubSeq(history, 1, i)) @@ <<>>] @@ <<>>
        Returners(num) ==
            20 * ScoreScale *
                Cardinality({i \in returnDays :
                    /\ num \in Range(history[i + 1].uniqueNumbers)
                    /\ tempGanStatus[i][num].daysGone >= GAN_RANGE_MEDIUM[1]})
        Approaching(num) ==
            LET histData == historicalGanAnalysis.value[num]
                daysGone == ganStatus[num].daysGone
                avgGan == histData.avgGan
                stdDevGan == histData.stdDevGan
                spread == IF stdDevGan # 0 THEN stdDevGan ELSE avgGan
                distance == IF daysGone >= avgGan THEN daysGone - avgGan
                            ELSE avgGan - daysGone
            IN  IF /\ Len(histData.ganLengths) > 1
                   /\ daysGone >= avgGan - stdDevGan
                   /\ daysGone <= avgGan + stdDevGan
                   /\ daysGone > 0
                THEN IF spread = 0 THEN NaN
                     ELSE (30 * ScoreScale * (spread - distance)) \div spread
                ELSE 0
        hitYesterday == {num \in Universe :
                            /\ ganStatus[num].daysGone = 0
                            /\ ganStatus[num].lastSeenIndex # -1}
        beforePenalty == [num \in Universe |->
                             Plus(ByRange(num) + Returners(num), Approaching(num))]
    IN  IF historicalGanAnalysis.threw THEN historicalGanAnalysis
        ELSE IF \E num \in hitYesterday : ganStatus[num].lastSeenIndex > 0
        THEN Thrown("TypeError")
        ELSE Returned([num \in Universe |->
                          Max(0, Min(OrZero(beforePenalty[num]),
                                     MAX_STRATEGY_SCORE * ScoreScale))])

\* StrategyCycleAnalysis.predict.  Every lotto number starts at 0.
\*   getNumberCycleAnalysis(3), whose throw ends predict; a number without
\*   appearances is passed over;
\*   _applyDueCycleScores: with avgCycle > 0 and consistencyScore > 0.6, for
\*     daysUntilDue = last appearance + avgCycle - currentDayIndex in -2..3,
\*     50 * consistencyScore * (1 - |daysUntilDue| / max(1, avgCycle));
\*   _applyOverdueLongCycleScores: 25 for daysSinceLast >= avgCycle * 1.5,
\*     avgCycle >= 10 and consistencyScore > 0.5;
\*   _applyStableShortCycleScores: 30 for avgCycle < 5, consistencyScore > 0.8
\*     and more than 5 appearances;
\*   the final clamp to [0, MAX_STRATEGY_SCORE].
StrategyCycleAnalysis(history) ==
    LET cycleData == getNumberCycleAnalysis(history)
        currentDayIndex == Len(history)
        Due(info) ==
            LET daysUntilDue == info.appearances[Len(info.appearances)]
                                    + info.avgCycle - currentDayIndex
                distance == IF daysUntilDue >= 0 THEN daysUntilDue ELSE -daysUntilDue
                longest == Max(1, info.avgCycle)
            IN  IF /\ info.avgCycle > 0
                   /\ 10 * info.consistencyScore > 6 * ScoreScale
                   /\ daysUntilDue >= -2
                   /\ daysUntilDue <= 3
                THEN (50 * info.consistencyScore * (longest - distance)) \div longest
                ELSE 0
        Overdue(info) ==
            IF /\ 2 * info.daysSinceLast >= 3 * info.avgCycle
               /\ info.avgCycle >= 10
               /\ 10 * info.consistencyScore > 5 * ScoreScale
            THEN 25 * ScoreScale
            ELSE 0
        StableShort(info) ==
            IF /\ info.avgCycle < 5
               /\ 10 * info.consistencyScore > 8 * ScoreScale
               /\ Len(info.appearances) > 5
            THEN 30 * ScoreScale
            ELSE 0
        Score(info) ==
            IF Len(info.appearances) = 0 THEN 0
            ELSE Due(info) + Overdue(info) + StableShort(info)
    IN  IF cycleData.threw THEN cycleData
        ELSE Returned([num \in Universe |->
                          Max(0, Min(Score(cycleData.value[num]),
                                     MAX_STRATEGY_SCORE * ScoreScale))])

\* histories of at least MIN_HISTORY_FOR_ANALYSIS days, by what a day lands:
\*   "empty"    nothing on any day;
\*   "every5th" "07" on each day whose index is phase modulo 5, nothing else;
\*   "once"     each lotto number on one day, the first hundred days;
\*   "late"     each lotto number on one day, the days 99..198;
\*   "busy"     three entries a day, walking through the lotto numbers
DayOfShape(shape, index) ==
    CASE shape.kind = "empty" -> <<>>
      [] shape.kind = "every5th" ->
             IF index % 5 = shape.phase THEN <<<<0, 7>>>> ELSE <<>>
      [] shape.kind = "once" ->
             IF index < 100 THEN <<PadStart2(index)>> ELSE <<>>
      [] shape.kind = "late" ->
             IF index >= 99 /\ index < 199 THEN <<PadStart2(index - 99)>> ELSE <<>>
      [] shape.kind = "busy" ->
             <<PadStart2(index % 100), PadStart2((7 * index + 3) % 100),
               PadStart2(index % 100)>>

StrategyShapes ==
    {[kind |-> kind, phase |-> 0] : kind \in {"empty", "once", "late", "busy"}}
        \cup {[kind |-> "every5th", phase |-> phase] : phase \in 0..4}

\* what the last day lands: what the shape says, or one of these
AsShaped == <<<<-1, -1>>>>

LastDays ==
    {AsShaped, <<>>, <<<<1, 1>>, <<1, 2>>>>, <<<<5, 5>>, <<6, 6>>, <<6, 5>>, <<0, 7>>>>,
     <<<<1, 2>>, <<3, 4>>>>, <<<<0, 7>>>>}

ExtraStrategyDays == 1

StrategyHistory(shape, length, lastDay) ==
    [k \in 1..length |->
        PrepareDay(IF k = length /\ lastDay # AsShaped
                   THEN lastDay
                   ELSE DayOfShape(shape, k - 1))]

StrategyHistories ==
    {StrategyHistory(shape, MIN_HISTORY_FOR_ANALYSIS + extra, lastDay) :
        shape \in StrategyShapes, extra \in 0..ExtraStrategyDays, lastDay \in LastDays}

StrategiesInit ==
    /\ analyzerHistory \in StrategyHistories
    /\ analyzerPc = "ready"
    /\ ganMap = <<>>
    /\ daysLookback = 0
    /\ answer = NotAsked

\* StrategyKepNumbers.predict(new DataAnalyzer(historyData))
predictKepNumbers ==
    /\ analyzerPc = "ready"
    /\ IF DataAnalyzerRejects(TRUE, analyzerHistory)
       THEN /\ analyzerPc' = "failed"
            /\ answer' = NotAsked
       ELSE /\ analyzerPc' = "StrategyKepNumbers"
            /\ answer' = StrategyKepNumbers(analyzerHistory)
    /\ UNCHANGED <<analyzerHistory, daysLookback, ganMap>>

\* StrategyGanNumbers.predict(new DataAnalyzer(historyData))
predictGanNumbers ==
    /\ analyzerPc = "ready"
    /\ IF DataAnalyzerRejects(TRUE, analyzerHistory)
       THEN /\ analyzerPc' = "failed"
            /\ answer' = NotAsked
       ELSE /\ analyzerPc' = "StrategyGanNumbers"
            /\ answer' = StrategyGanNumbers(analyzerHistory)
    /\ UNCHANGED <<analyzerHistory, daysLookback, ganMap>>

\* StrategyCycleAnalysis.predict(new DataAnalyzer(historyData))
predictCycleAnalysis ==
    /\ analyzerPc = "ready"
    /\ IF DataAnalyzerRejects(TRUE, analyzerHistory)
       THEN /\ analyzerPc' = "failed"
            /\ answer' = NotAsked
       ELSE /\ analyzerPc' = "StrategyCycleAnalysis"
            /\ answer' = StrategyCycleAnalysis(analyzerHistory)
    /\ UNCHANGED <<analyzerHistory, daysLookback, ganMap>>

\* new DataAnalyzer(historyData).getNumberCycleAnalysis()
queryNumberCycleAnalysis ==
    /\ analyzerPc = "ready"
    /\ IF DataAnalyzerRejects(TRUE, analyzerHistory)
       THEN /\ analyzerPc' = "failed"
            /\ answer' = NotAsked
       ELSE /\ analyzerPc' = "getNumberCycleAnalysis"
            /\ answer' = getNumberCycleAnalysis(analyzerHistory)
    /\ UNCHANGED <<analyzerHistory, daysLookback, ganMap>>

\* new DataAnalyzer(historyData).getHistoricalGanAnalysis()
queryHistoricalGanAnalysis ==
    /\ analyzerPc = "ready"
    /\ IF DataAnalyzerRejects(TRUE, analyzerHistory)
       THEN /\ analyzerPc' = "failed"
            /\ answer' = NotAsked
       ELSE /\ analyzerPc' = "getHistoricalGanAnalysis"
            /\ answer' = getHistoricalGanAnalysis(analyzerHistory)
    /\ UNCHANGED <<analyzerHistory, daysLookback, ganMap>>

-----------------------------------------------------------------------------
(* Specifications: the engine called once; the analyzer queried once; a
   backtest run; the page and its worker *)

Init == EngineInit /\ AnalyzerIdle /\ BacktestIdle /\ WorkerIdle

Next == predictNextDay /\ UNCHANGED <<analyzerVars, backtestVars, workerVars>>

Spec == Init /\ [][Next]_vars

InitAnalyzer == AnalyzerInit /\ EngineIdle /\ BacktestIdle /\ WorkerIdle

NextAnalyzer ==
    \/ queryGanStatus /\ UNCHANGED <<engineVars, backtestVars, workerVars>>
    \/ queryNumbersFrequency /\ UNCHANGED <<engineVars, backtestVars, workerVars>>
    \/ queryReverseCoOccurrences /\ UNCHANGED <<engineVars, backtestVars, workerVars>>
    \/ queryGanTotalsStatus /\ UNCHANGED <<engineVars, backtestVars, workerVars>>
    \/ queryLoRoiCandidates /\ UNCHANGED <<engineVars, backtestVars, workerVars>>
    \/ queryConsistentPeriodBridge /\ UNCHANGED <<engineVars, backtestVars, workerVars>>
    \/ queryAllPairCoOccurrences /\ UNCHANGED <<engineVars, backtestVars, workerVars>>
    \/ queryHistoricalGanAnalysis /\ UNCHANGED <<engineVars, backtestVars, workerVars>>

SpecAnalyzer == InitAnalyzer /\ [][NextAnalyzer]_vars

InitStrategies == StrategiesInit /\ EngineIdle /\ BacktestIdle /\ WorkerIdle

NextStrategies ==
    \/ predictKepNumbers /\ UNCHANGED <<engineVars, backtestVars, workerVars>>
    \/ predictGanNumbers /\ UNCHANGED <<engineVars, backtestVars, workerVars>>
    \/ predictCycleAnalysis /\ UNCHANGED <<engineVars, backtestVars, workerVars>>
    \/ queryNumberCycleAnalysis /\ UNCHANGED <<engineVars, backtestVars, workerVars>>

SpecStrategies == InitStrategies /\ [][NextStrategies]_vars

InitBacktest == BacktestInit /\ EngineIdle /\ AnalyzerIdle /\ WorkerIdle

NextBacktest ==
    \/ runBacktestStart /\ UNCHANGED <<engineVars, analyzerVars, workerVars>>
    \/ backtestDay /\ UNCHANGED <<engineVars, analyzerVars, workerVars>>
    \/ runBacktestReturn /\ UNCHANGED <<engineVars, analyzerVars, workerVars>>

SpecBacktest == InitBacktest /\ [][NextBacktest]_vars

\* the worker's engine and backtester as its scripts leave them
ScriptsLoaded ==
    /\ AnalyzerIdle
    /\ historyGiven = FALSE
    /\ historyData = <<>>
    /\ strategyOutcomes \in WorkerProfiles
    /\ pc = "idle"
    /\ call = NotCalled
    /\ fullHistoryData = <<>>
    /\ backtestOutcomes = strategyOutcomes
    /\ engineFaults = {}
    /\ backtestPc = "idle"
    /\ loopIndex = 0
    /\ totalDaysTested = 0
    /\ totalCorrectNumbers = 0
    /\ daysWithHighAccuracy = 0
    /\ daysMeetingProfitThreshold = 0
    /\ dailyCorrectCounts = <<>>
    /\ totalInvestment = 0
    /\ totalGains = 0
    /\ dailyNetProfits = <<>>
    /\ attemptedDays = <<>>
    /\ simulated = NotSimulated
    /\ otherSimulated = NotSimulated
    /\ day = NoDay
    /\ accuracyStats = NoStats

\* a step of the worker's message handler
WorkerStep ==
    \/ onmessageProcessData /\ UNCHANGED <<analyzerVars, backtestVars>>
    \/ onmessageRunBacktest /\ UNCHANGED <<engineVars, analyzerVars>>
    \/ runBacktestStart /\ UNCHANGED <<engineVars, analyzerVars, workerVars>>
    \/ backtestDay /\ UNCHANGED <<engineVars, analyzerVars, workerVars>>
    \/ runBacktestReturn /\ UNCHANGED <<engineVars, analyzerVars, workerVars>>
    \/ onmessageBacktestResult /\ UNCHANGED <<engineVars, analyzerVars, backtestVars>>
    \/ onmessageDefault /\ UNCHANGED <<engineVars, analyzerVars, backtestVars>>

NextWorker ==
    \/ click /\ UNCHANGED analyzerVars
    \/ pageOnmessage /\ UNCHANGED <<engineVars, analyzerVars, backtestVars>>
    \/ onmessageProcessData /\ UNCHANGED <<analyzerVars, backtestVars>>
    \/ onmessageRunBacktest /\ UNCHANGED <<engineVars, analyzerVars>>
    \/ runBacktestStart /\ UNCHANGED <<engineVars, analyzerVars, workerVars>>
    \/ backtestDay /\ UNCHANGED <<engineVars, analyzerVars, workerVars>>
    \/ runBacktestReturn /\ UNCHANGED <<engineVars, analyzerVars, workerVars>>
    \/ onmessageBacktestResult /\ UNCHANGED <<engineVars, analyzerVars, backtestVars>>
    \/ onmessageDefault /\ UNCHANGED <<engineVars, analyzerVars, backtestVars>>

InitWorker == WorkerInit /\ ScriptsLoaded

SpecWorker == InitWorker /\ [][NextWorker]_vars

InitPage == PageInit /\ ScriptsLoaded

\* the page and its worker from a request that has the form the worker reads
SpecPage == InitPage /\ [][NextWorker]_vars

\* the handler holds a message and has not come to its end
HandlerPending == workerPc \in {"received", "backtesting"}

\* what every step of the handler changes
handlerProgress == <<workerPc, backtestPc, loopIndex>>

\* WF_vars(WorkerStep), with the two sides of weak fairness written out:
\* ENABLED <<WorkerStep>>_vars is HandlerPending (the steps of the handler are
\* guarded by workerPc, backtestPc and loopIndex alone), and among the steps
\* of NextWorker those of WorkerStep are the ones that change handlerProgress
\* and are no click
HandlerRunsOn ==
    \/ []<>(~HandlerPending)
    \/ []<><<clicks' = clicks>>_handlerProgress

\* a handler that was started runs to its end, and the page handles every
\* message it was posted: both are tasks of an event loop
SpecWorkerFair ==
    /\ SpecWorker
    /\ HandlerRunsOn
    /\ WF_vars(pageOnmessage /\ UNCHANGED <<engineVars, analyzerVars, backtestVars>>)

-----------------------------------------------------------------------------
(* Properties of predictNextDay *)

\* the positions of arr whose number has digit d at place p (1 head, 2 tail)
DigitPositions(arr, p, d) == {k \in 1..Len(arr) : arr[k][p] = d}

\* the strategies that throw in this call
Failing == {s \in StrategyIdx : Throws(strategyOutcomes[s])}

\* C1: for every prepared history of at least MIN_HISTORY_FOR_ANALYSIS records
\* (exactly 200 included), predictNextDay returns, without an error, exactly 16
\* members of the universe, pairwise distinct and ascending by numeric value,
\* whatever the strategies score and whichever of them fail.
C1_SixteenDistinctAscending ==
    (pc # "ready" /\ historyGiven /\ Len(historyData) >= MIN_HISTORY_FOR_ANALYSIS) =>
        /\ pc = "predicted"
        /\ call.error = NoError
        /\ Len(call.predicted) = NUM_PREDICTED_LOTTO_NUMBERS
        /\ \A k \in 1..Len(call.predicted) : call.predicted[k] \in Universe
        /\ \A k \in 1..(Len(call.predicted) - 1) :
               ParseInt(call.predicted[k]) < ParseInt(call.predicted[k + 1])

\* a prediction from exactly 200 records, with failing strategies, the
\* diversification pass having admitted fewer than 16 numbers
C1_Witness ==
    /\ pc = "predicted"
    /\ Len(historyData) = MIN_HISTORY_FOR_ANALYSIS
    /\ Failing # {}
    /\ Len(call.greedySelected) < NUM_PREDICTED_LOTTO_NUMBERS
    /\ Len(call.predicted) = NUM_PREDICTED_LOTTO_NUMBERS

\* the 4 best-ranked candidates
TopRanked(sorted) ==
    Range(Slice(sorted, 0,
                (NUM_PREDICTED_LOTTO_NUMBERS * PERCENT_TO_ALLOW_BREACH) \div 100))

\* C2 as stated: in the 16 numbers returned, no head digit and no tail digit
\* appears more than 3 times, but for an excess caused by the numbers ranked in
\* the top 4: leaving those out, no digit is left more than 3 times.
C2_DiversityOfReturned ==
    pc = "predicted" =>
        \A p \in 1..2 : \A d \in Digits :
            Cardinality({k \in DigitPositions(call.predicted, p, d) :
                            call.predicted[k] \notin TopRanked(call.sortedCandidates)})
                <= MAX_HEAD_PER_CATEGORY

\* C2, amended: among the numbers the diversification pass admits, a head or
\* tail digit appears more than 3 times only when every number carrying it is
\* among the first 4 admitted, which are the 4 best-ranked candidates; when the
\* pass admits 16 numbers, they are the numbers returned.
C2_DiversityOfGreedyPass ==
    pc = "predicted" =>
        LET greedy == call.greedySelected
            exempt == (NUM_PREDICTED_LOTTO_NUMBERS * PERCENT_TO_ALLOW_BREACH) \div 100
        IN  /\ \A p \in 1..2 : \A d \in Digits :
                   Cardinality(DigitPositions(greedy, p, d)) > MAX_HEAD_PER_CATEGORY
                       => DigitPositions(greedy, p, d) \subseteq 1..exempt
            /\ Slice(greedy, 0, exempt) = Slice(call.sortedCandidates, 0, exempt)
            /\ Len(greedy) = NUM_PREDICTED_LOTTO_NUMBERS
                   => Range(call.predicted) = Range(greedy)

\* a pass that admitted 4 numbers of one head digit in its exempt slots, and
\* fewer than 16 in all, so that the fallback filled the rest
C2_Witness ==
    /\ pc = "predicted"
    /\ Len(call.greedySelected) < NUM_PREDICTED_LOTTO_NUMBERS
    /\ \E d \in Digits :
           Cardinality(DigitPositions(call.greedySelected, 1, d)) > MAX_HEAD_PER_CATEGORY
    /\ \E d \in Digits :
           Cardinality(DigitPositions(call.predicted, 1, d)) > MAX_HEAD_PER_CATEGORY + 1

\* C3: on a history that is missing, empty or shorter than
\* MIN_HISTORY_FOR_ANALYSIS, predictNextDay fails with the insufficient-data
\* error naming the minimum, no DataAnalyzer built and no strategy run.
C3_InsufficientDataFirst ==
    (pc # "ready" /\ (~historyGiven \/ Len(historyData) < MIN_HISTORY_FOR_ANALYSIS)) =>
        /\ pc = "failed"
        /\ call.error = InsufficientData
        /\ call.error.minimum = 200
        /\ ~call.analyzerBuilt
        /\ call.strategiesRun = <<>>

\* the call on an empty history has failed
C3_Witness ==
    /\ pc = "failed"
    /\ historyGiven
    /\ historyData = <<>>
    /\ call.error = InsufficientData

\* the outcomes with every throwing strategy returning an empty Map instead
WithoutFailing(outcomes) ==
    [s \in StrategyIdx |-> IF Throws(outcomes[s]) THEN "none" ELSE outcomes[s]]

\* C4: whichever strategies throw, every strategy of the list is run, in
\* order, the aggregate scores are what they are when the throwing strategies
\* contribute nothing, and predictNextDay returns a prediction.
C4_FailingStrategySkipped ==
    (pc # "ready" /\ historyGiven /\ Len(historyData) >= MIN_HISTORY_FOR_ANALYSIS) =>
        /\ pc = "predicted"
        /\ call.strategiesRun = [s \in StrategyIdx |-> s]
        /\ call.phase1Scores =
               RunStrategies(WithoutFailing(strategyOutcomes), historyData).scores
        /\ Len(call.predicted) = NUM_PREDICTED_LOTTO_NUMBERS

\* a prediction made with the first and the last strategy throwing and the
\* others scoring
C4_Witness ==
    /\ pc = "predicted"
    /\ Failing = {1, Len(STRATEGY_WEIGHTS)}
    /\ \E num \in Universe : call.phase1Scores[num] > 0

-----------------------------------------------------------------------------
(* Properties of getGanStatus *)

\* the records of the history, by 0-based index, that hold num
SeenAt(history, num) ==
    {k \in 0..(Len(history) - 1) : num \in Range(history[k + 1].uniqueNumbers)}

Latest(indices) == CHOOSE k \in indices : \A j \in indices : j <= k

\* C5: on a non-empty history getGanStatus gives every member of the universe
\* a daysGone >= 0, equal to currentDayIndex exactly when no record holds the
\* member, and otherwise currentDayIndex - lastSeenIndex - 1 with lastSeenIndex
\* the latest record holding it (index 0 gives currentDayIndex - 1);
\* lastSeenIndex is -1 exactly when no record holds the member.
C5_GanStatus ==
    analyzerPc = "queried" =>
        /\ DOMAIN ganMap = Universe
        /\ \A num \in Universe :
               LET seen == SeenAt(analyzerHistory, num)
                   currentDayIndex == Len(analyzerHistory)
               IN  /\ ganMap[num].daysGone >= 0
                   /\ ganMap[num].daysGone = currentDayIndex <=> seen = {}
                   /\ ganMap[num].lastSeenIndex = -1 <=> seen = {}
                   /\ seen # {} =>
                          /\ ganMap[num].lastSeenIndex = Latest(seen)
                          /\ ganMap[num].daysGone = currentDayIndex - Latest(seen) - 1

\* a query on several days where "42" landed on the first day only and "11"
\* never
C5_Witness ==
    /\ analyzerPc = "queried"
    /\ Len(analyzerHistory) > 2
    /\ ganMap[<<4, 2>>].lastSeenIndex = 0
    /\ ganMap[<<4, 2>>].daysGone = Len(analyzerHistory) - 1
    /\ ganMap[<<1, 1>>].lastSeenIndex = -1

-----------------------------------------------------------------------------
(* Properties of runBacktest *)

\* C6: for every tested day i the engine is given exactly the records 0..i-1,
\* and what it returns for day i is what it returns when the records from i
\* on, day i included, are other records.
C6_NoLookAhead ==
    day.attempted =>
        /\ day.trainingLength = day.index
        /\ simulated = otherSimulated

\* a prediction made for the last day of a history, whose record and the one
\* put in its place differ
C6_Witness ==
    /\ day.attempted
    /\ ~simulated.threw
    /\ Len(simulated.numbers) = NUM_PREDICTED_LOTTO_NUMBERS
    /\ day.index = MaxTestableIndex(fullHistoryData)
    /\ ReplacedFrom(fullHistoryData, day.index)[day.index + 1]
           # fullHistoryData[day.index + 1]

\* C7 as stated: given a prepared history of N >= 201 records, runBacktest
\* attempts a prediction for the days max(N - 150, 200) .. N - 1, each once and
\* in increasing order, and returns statistics with totalDaysTested
\* min(150, N - 200).
C7_WindowTested ==
    (backtestPc \in {"returned", "threw"} /\ Len(fullHistoryData) >= 201) =>
        LET N == Len(fullHistoryData)
        IN  /\ backtestPc = "returned"
            /\ attemptedDays = [k \in 1..Min(150, N - 200) |-> Max(N - 150, 200) + k - 1]
            /\ accuracyStats.totalDaysTested = Min(150, N - 200)

\* C8: when predictNextDay throws for a tested day, the day is recorded with 0
\* correct numbers and a net profit of minus 16 unit costs, the days tested and
\* the investment go up once, the gains and the counts of high-accuracy and
\* profitable days stay, and the loop goes on to the next day.
C8_FailedDayIsLostDay ==
    [][(loopIndex' = loopIndex + 1 /\ simulated'.threw) =>
          /\ dailyCorrectCounts' = Append(dailyCorrectCounts, 0)
          /\ dailyNetProfits' = Append(dailyNetProfits, 0 - 16 * COST_PER_LOTTO_POINT)
          /\ totalDaysTested' = totalDaysTested + 1
          /\ totalInvestment' = totalInvestment + 16 * COST_PER_LOTTO_POINT
          /\ totalGains' = totalGains
          /\ totalCorrectNumbers' = totalCorrectNumbers
          /\ daysWithHighAccuracy' = daysWithHighAccuracy
          /\ daysMeetingProfitThreshold' = daysMeetingProfitThreshold
          /\ backtestPc' = "loop"]_vars

\* a backtest that returned its statistics after days on which predictNextDay
\* threw, the first tested day among them, and days with hits
C8_Witness ==
    /\ backtestPc = "returned"
    /\ attemptedDays # <<>>
    /\ attemptedDays[1] \in engineFaults
    /\ dailyCorrectCounts[1] = 0
    /\ totalGains > 0
    /\ accuracyStats.totalDaysTested = Len(attemptedDays)

\* C9: after every iteration and at the end, totalDaysTested is the number of
\* days a prediction was attempted for and the length of both daily arrays,
\* totalInvestment is totalDaysTested x 16 x unit cost, totalGains is the unit
\* payout times the sum of the daily counts and times totalCorrectNumbers, and
\* totalGains - totalInvestment is the sum of the daily net profits.
C9_TotalsConsistent ==
    backtestPc \in {"loop", "returned"} =>
        /\ totalDaysTested = Len(attemptedDays)
        /\ totalDaysTested = Len(dailyCorrectCounts)
        /\ totalDaysTested = Len(dailyNetProfits)
        /\ totalInvestment = totalDaysTested * 16 * COST_PER_LOTTO_POINT
        /\ totalGains = REWARD_PER_LOTTO_POINT_HIT * Sum(dailyCorrectCounts)
        /\ totalGains = REWARD_PER_LOTTO_POINT_HIT * totalCorrectNumbers
        /\ totalGains - totalInvestment = Sum(dailyNetProfits)
        /\ (backtestPc = "returned" /\ accuracyStats.reason = "none") =>
               /\ accuracyStats.totalDaysTested = totalDaysTested
               /\ accuracyStats.netProfit = Sum(dailyNetProfits)

\* the end of a backtest of 150 days, some with hits and some failed
C9_Witness ==
    /\ backtestPc = "returned"
    /\ totalDaysTested = BACKTEST_WINDOW_SIZE
    /\ totalGains > 0
    /\ \E k \in 1..Len(attemptedDays) : attemptedDays[k] \in engineFaults

\* C10: the count recorded for a tested day is the number of predicted numbers
\* that landed that day at least once, a number in 0..16; the days counted as
\* high-accuracy are those with a count >= 10 and the days counted as
\* profitable those with a count >= 5, so that daysWithHighAccuracy <=
\* daysMeetingProfitThreshold <= totalDaysTested.
C10_CorrectCounts ==
    /\ (day.attempted /\ ~simulated.threw) =>
           /\ dailyCorrectCounts[Len(dailyCorrectCounts)] =
                  Cardinality(Range(simulated.numbers)
                                  \cap Range(fullHistoryData[day.index + 1].numbers))
           /\ dailyCorrectCounts[Len(dailyCorrectCounts)] \in 0..16
    /\ daysWithHighAccuracy =
           Cardinality({k \in 1..Len(dailyCorrectCounts) : dailyCorrectCounts[k] >= 10})
    /\ daysMeetingProfitThreshold =
           Cardinality({k \in 1..Len(dailyCorrectCounts) : dailyCorrectCounts[k] >= 5})
    /\ daysWithHighAccuracy <= daysMeetingProfitThreshold
    /\ daysMeetingProfitThreshold <= totalDaysTested

\* a day on which a predicted number landed twice, in a backtest with
\* high-accuracy days, days that are profitable only, and days that are neither
C10_Witness ==
    /\ day.attempted
    /\ ~simulated.threw
    /\ \E j, k \in 1..Len(fullHistoryData[day.index + 1].numbers) :
           /\ j # k
           /\ fullHistoryData[day.index + 1].numbers[j]
                  = fullHistoryData[day.index + 1].numbers[k]
           /\ Includes(simulated.numbers, fullHistoryData[day.index + 1].numbers[j])
    /\ 0 < daysWithHighAccuracy
    /\ daysWithHighAccuracy < daysMeetingProfitThreshold
    /\ daysMeetingProfitThreshold < totalDaysTested

\* C19: the four best-ranked numbers, the first four of the descending stable
\* sort of the adjusted scores, are always among the numbers predictNextDay
\* returns, whatever digits and digit sums they share.
C19_TopFourReturned ==
    pc = "predicted" =>
        /\ Cardinality(TopRanked(call.sortedCandidates)) = 4
        /\ TopRanked(call.sortedCandidates) \subseteq Range(call.predicted)

\* a prediction whose four best-ranked numbers break a cap among themselves
\* while the diversification pass alone filled all 16 places
C19_Witness ==
    /\ pc = "predicted"
    /\ Len(call.greedySelected) = NUM_PREDICTED_LOTTO_NUMBERS
    /\ LET top == TopRanked(call.sortedCandidates)
       IN  \/ \E p \in 1..2 : \E d \in Digits :
                  Cardinality({n \in top : n[p] = d}) > MAX_HEAD_PER_CATEGORY
           \/ \E t \in 0..18 :
                  Cardinality({n \in top : calculateTotal(n) = t}) > MAX_TOTAL_PER_CATEGORY

\* position of x in arr (arr.indexOf, 1-based)
IndexOf(arr, x) == CHOOSE k \in 1..Len(arr) : arr[k] = x

\* C20: the diversification pass looks at the 32 best-ranked candidates in
\* descending score order; a candidate is admitted exactly when fewer than 16
\* are selected so far and either fewer than 4 are selected or fewer than 3 of
\* the selected share its head digit, fewer than 3 its tail digit and fewer
\* than 2 its digit sum, the first four selections counting in these tallies
\* and the rejected candidates not; the pass ends with at most 16 selected.
C20_GreedyPass ==
    pc = "predicted" =>
        LET pool == Slice(call.sortedCandidates, 0, 32)
            greedy == call.greedySelected
            Before(k) == {j \in 1..(k - 1) : Includes(greedy, pool[j])}
            Admitted(k) ==
                LET sel == Before(k)
                IN  /\ Cardinality(sel) < 16
                    /\ \/ Cardinality(sel) < 4
                       \/ /\ Cardinality({j \in sel : pool[j][1] = pool[k][1]}) < 3
                          /\ Cardinality({j \in sel : pool[j][2] = pool[k][2]}) < 3
                          /\ Cardinality({j \in sel : calculateTotal(pool[j])
                                                       = calculateTotal(pool[k])}) < 2
        IN  /\ Len(pool) = 32
            /\ Range(greedy) \subseteq Range(pool)
            /\ \A k \in 1..Len(pool) : Includes(greedy, pool[k]) <=> Admitted(k)
            /\ \A a, b \in 1..Len(greedy) :
                   a < b => IndexOf(pool, greedy[a]) < IndexOf(pool, greedy[b])
            /\ Len(greedy) <= 16

\* a pass that rejected a candidate on a cap, admitted a later one, and ended
\* on its 16th selection before the pool was exhausted
C20_Witness ==
    /\ pc = "predicted"
    /\ Len(call.greedySelected) = NUM_PREDICTED_LOTTO_NUMBERS
    /\ LET pool == Slice(call.sortedCandidates, 0, 32)
           last == IndexOf(pool, call.greedySelected[NUM_PREDICTED_LOTTO_NUMBERS])
       IN  /\ last < 32
           /\ \E k \in 5..last : ~Includes(call.greedySelected, pool[k])

-----------------------------------------------------------------------------
(* Properties of the worker and the page *)

FinalTypes == {"predictionResult", "backtestResult", "error"}

\* what the worker has posted for the message it holds: 'status' messages
\* only while it handles it, and at the end 'status' messages followed by one
\* final message; the final message is a result of the kind requested, and it
\* is the 'error' message when an exception was raised, when the prepared
\* history is empty and when the command is unknown
MessageContract ==
    /\ \A k \in 1..(Len(posted) - 1) : posted[k].type = "status"
    /\ workerPc # "done" => \A k \in 1..Len(posted) : posted[k].type = "status"
    /\ workerPc = "done" =>
           LET final == posted[Len(posted)]
           IN  /\ Len(posted) >= 1
               /\ final.type \in FinalTypes
               /\ final.type = "predictionResult" => inbox.type = "processData"
               /\ final.type = "backtestResult" => inbox.type = "runBacktest"
               /\ inbox.type \notin {"processData", "runBacktest"}
                      => final.type = "error"
               /\ preparedData.exception # "none" => final.type = "error"
               /\ (preparedData.reached = "preparedData"
                      /\ Len(preparedData.days) = 0) => final.type = "error"
               /\ (inbox.type = "processData" /\ call.threw) => final.type = "error"
               /\ (inbox.type = "runBacktest" /\ backtestPc = "threw")
                      => final.type = "error"

\* a pending handler has a step to take: one of the guards of WorkerStep holds
HandlerNotStuck ==
    /\ workerPc = "received" => "type" \in DOMAIN inbox
    /\ workerPc = "backtesting" =>
           \/ backtestPc \in {"ready", "returned", "threw"}
           \/ /\ backtestPc = "loop"
              /\ loopIndex <= MaxTestableIndex(fullHistoryData) + 1

\* C12: for every message the worker receives (processData, runBacktest or
\* an unknown type) it posts zero or more 'status' messages followed by
\* exactly one final message, a result or an 'error', and nothing after it;
\* an exception raised while parsing, preparing, predicting or backtesting,
\* and an empty prepared history, end the request with the error message.
C12_WorkerContract ==
    /\ []MessageContract
    /\ []HandlerNotStuck
    /\ (workerPc = "received") ~> (workerPc = "done")

\* a runBacktest request whose backtest threw, ended by the error message
\* after one status message
C12_Witness ==
    /\ workerPc = "done"
    /\ inbox.type = "runBacktest"
    /\ backtestPc = "threw"
    /\ Len(posted) = 2
    /\ posted[1].type = "status"
    /\ posted[2].type = "error"

\* the page's request is over: its worker is done and the page has handled
\* every message
RequestOver == worker # <<>> /\ workerPc = "done" /\ handled = Len(posted)

\* C13 as stated: after a click with an input that parses to at least 200
\* valid days, the worker takes the page's message as a processData request
\* carrying that text, and once the request is over the page shows the
\* predicted numbers of the worker's predictionResult, the history length and
\* the count of active strategies.
C13_RequestDisplayed ==
    (RequestOver
        /\ Len(organizeData(parseRawData(Trim(dataInput)))) >= MIN_HISTORY_FOR_ANALYSIS)
    => /\ preparedData.reached = "preparedData"
       /\ Len(preparedData.days) = Len(organizeData(parseRawData(Trim(dataInput))))
       /\ posted[Len(posted)].type = "predictionResult"
       /\ ui.predictionResult = [shows |-> "numbers", numbers |-> call.predicted]
       /\ ui.summaryTotalDays = Num(Len(preparedData.days))
       /\ ui.summaryStrategyCount = Num(getActivatedStrategyCount)

\* the page has handled the final message of the request in flight
FinalHandled == \E k \in 1..handled : posted[k].type \in FinalTypes

DisplayedTypes == {"predictionResult", "error", "parsingError"}

\* C30: the page holds one Worker; every message waiting for the page or
\* handled since the latest request started was posted through that Worker,
\* none through the one a click terminated, and a result on display is that
\* of a message of the latest request.
C30_LatestRequestOnly ==
    /\ \A k \in 1..Len(posted) : postedBy[k] = worker
    /\ Len(postedBy) = Len(posted)
    /\ ui.predictionResult.shows # "nothing" =>
           \E k \in 1..handled :
               /\ posted[k].type \in DisplayedTypes
               /\ postedBy[k] = worker
               /\ ui.predictionResult
                      = onmessageOfPage(ui, posted[k]).predictionResult

\* a second request, started by a click while the page was attached to the
\* worker of the first, has been answered and its answer is on display
C30_Witness ==
    /\ worker = <<2>>
    /\ workerPc = "done"
    /\ handled = Len(posted)
    /\ Len(posted) >= 1
    /\ postedBy[Len(posted)] = <<2>>
    /\ ui.predictionResult.shows = "error"

-----------------------------------------------------------------------------
(* Properties of the analyzer's window queries *)

\* the values of a map over the lotto numbers, in the order "00".."99"
ValuesOf(map) == [i \in 1..100 |-> map[PadStart2(i - 1)]]

\* the trailing Min(lookback, N) records of a history, counted from its end
Trailing(history, lookback) ==
    LET n == Min(lookback, Len(history))
    IN  [k \in 1..n |-> history[Len(history) - n + k]]

\* C14: for every history of N records and every window W >= 0 the values of
\* getNumbersFrequency(W) sum to the number of entries of `numbers`,
\* duplicates counted, in the trailing min(W, N) records; when every record
\* holds D entries this is D x W for W <= N and D x N otherwise; and the map
\* has exactly the 100 lotto numbers as keys.
C14_FrequencySum ==
    analyzerPc = "getNumbersFrequency" =>
        LET N == Len(analyzerHistory)
            trailing == Trailing(analyzerHistory, daysLookback)
            entries == Sum([k \in 1..Len(trailing) |-> Len(trailing[k].numbers)])
        IN  /\ DOMAIN answer = Universe
            /\ Cardinality(DOMAIN answer) = 100
            /\ Sum(ValuesOf(answer)) = entries
            /\ \A D \in 0..3 :
                   (\A k \in 1..N : Len(analyzerHistory[k].numbers) = D) =>
                       Sum(ValuesOf(answer)) =
                           IF daysLookback <= N THEN D * daysLookback ELSE D * N

\* a window shorter than the history, over days of three entries of which one
\* is a repeat
C14_Witness ==
    /\ analyzerPc = "getNumbersFrequency"
    /\ daysLookback = 2
    /\ Len(analyzerHistory) = 3
    /\ \A k \in 1..3 : analyzerHistory[k].numbers = <<<<4, 2>>, <<0, 7>>, <<4, 2>>>>
    /\ answer[<<4, 2>>] = 4
    /\ Sum(ValuesOf(answer)) = 6

\* the days of the trailing window on which num and other both landed
CoOccurrenceDays(history, lookback, num, other) ==
    LET trailing == Trailing(history, lookback)
    IN  {k \in 1..Len(trailing) : {num, other} \subseteq Range(trailing[k].numbers)}

\* C15: for every history and window getReverseCoOccurrences gives a number
\* that is not a double and its digit reversal the same count, a count that
\* is positive exactly when the two land together on at least one day of the
\* window, and gives every double 0.
C15_ReversalSymmetry ==
    analyzerPc = "getReverseCoOccurrences" =>
        \A head, tail \in 0..9 :
            LET num == <<head, tail>>
                reversed == <<tail, head>>
            IN  IF head = tail
                THEN answer[num] = 0
                ELSE /\ answer[num] = answer[reversed]
                     /\ answer[num] > 0 <=>
                            CoOccurrenceDays(analyzerHistory, daysLookback,
                                             num, reversed) # {}

\* "12" and "21" landed together inside the window and, before it, on a day
\* the window leaves out; "24" landed without "42" and a double landed too
C15_Witness ==
    /\ analyzerPc = "getReverseCoOccurrences"
    /\ Len(analyzerHistory) = 3
    /\ daysLookback = 2
    /\ analyzerHistory[1].numbers = <<<<1, 2>>, <<4, 2>>, <<2, 1>>>>
    /\ analyzerHistory[2].numbers = <<<<0, 0>>, <<9, 9>>>>
    /\ analyzerHistory[3].numbers = <<<<1, 2>>, <<4, 2>>, <<2, 1>>>>
    /\ answer[<<1, 2>>] > 0
    /\ answer[<<2, 1>>] = answer[<<1, 2>>]
    /\ answer[<<4, 2>>] = 0
    /\ answer[<<0, 0>>] = 0

\* C28: for every history and window getReverseCoOccurrences gives a number
\* that is not a double the number of days of the window on which it and its
\* digit reversal both landed, one per such day.
C28_OnePerCoOccurrenceDay ==
    analyzerPc = "getReverseCoOccurrences" =>
        \A head, tail \in 0..9 :
            head # tail =>
                answer[<<head, tail>>] =
                    Cardinality(CoOccurrenceDays(analyzerHistory, daysLookback,
                                                 <<head, tail>>, <<tail, head>>))

-----------------------------------------------------------------------------
(* Properties of the strategies *)

StrategyAsked == analyzerPc \in {"StrategyKepNumbers", "StrategyGanNumbers",
                                 "StrategyCycleAnalysis"}

\* C16: every value of the ScoreMap a strategy's predict returns is a number
\* in [0, MAX_STRATEGY_SCORE], for every key the map has; the doubles
\* strategy returns scores for the ten doubles only, each within the range,
\* also when the last day holds a double together with numbers whose digits
\* are equal or adjacent.
C16_ScoresInRange ==
    (StrategyAsked /\ ~answer.threw) =>
        /\ \A num \in DOMAIN answer.value :
               /\ answer.value[num] # NaN
               /\ answer.value[num] >= 0
               /\ answer.value[num] <= MAX_STRATEGY_SCORE * ScoreScale
        /\ analyzerPc = "StrategyKepNumbers" => DOMAIN answer.value = allKepNumbers

\* C17: on every prepared history of at least 200 days, also one in which
\* some numbers never land or land once only, each strategy's predict returns
\* a ScoreMap and does not throw.
C17_StrategiesReturn ==
    (StrategyAsked /\ Len(analyzerHistory) >= MIN_HISTORY_FOR_ANALYSIS) =>
        ~answer.threw

\* a history of exactly 200 records in which "07" lands on every 5th record
\* and no record holds anything else
CycleScenario ==
    /\ Len(analyzerHistory) = 200
    /\ \E phase \in 0..4 :
           \A k \in 1..200 :
               analyzerHistory[k].numbers =
                   IF (k - 1) % 5 = phase THEN <<<<0, 7>>>> ELSE <<>>

\* C18: in the cycle scenario getNumberCycleAnalysis() reports for "07" an
\* average cycle of 5 and a consistency score of 1, and
\* StrategyCycleAnalysis.predict scores "07" strictly higher than a number
\* that never landed, whichever records of five the pattern falls on.
C18_CycleScenario ==
    CycleScenario =>
        /\ analyzerPc = "getNumberCycleAnalysis" =>
               /\ ~answer.threw
               /\ answer.value[<<0, 7>>].avgCycle = 5
               /\ answer.value[<<0, 7>>].consistencyScore = ScoreScale
        /\ analyzerPc = "StrategyCycleAnalysis" =>
               /\ ~answer.threw
               /\ \A num \in Universe \ {<<0, 7>>} :
                      answer.value[<<0, 7>>] > answer.value[num]

-----------------------------------------------------------------------------
(* Properties of the analyzer's further queries *)

\* the indices of the records on which a number with digit sum s landed
TotalSeenAt(history, s) ==
    {k \in 0..(Len(history) - 1) :
        \E j \in 1..Len(history[k + 1].numbers) :
            calculateTotal(history[k + 1].numbers[j]) = s}

\* C21: for every history and every digit sum s in 0..18 getGanTotalsStatus
\* gives daysGone = currentDayIndex - lastSeenIndex - 1 with lastSeenIndex the
\* latest record on which s landed, and daysGone = currentDayIndex exactly
\* when s landed on no record; a sum last seen at index 0 gets
\* currentDayIndex - 1 and a lastSeenDate that is not null.
C21_GanTotalsStatus ==
    analyzerPc = "getGanTotalsStatus" =>
        /\ DOMAIN answer = 0..18
        /\ \A s \in 0..18 :
               LET seen == TotalSeenAt(analyzerHistory, s)
                   currentDayIndex == Len(analyzerHistory)
               IN  /\ answer[s].daysGone = currentDayIndex <=> seen = {}
                   /\ seen # {} =>
                          /\ answer[s].daysGone = currentDayIndex - Latest(seen) - 1
                          /\ ~answer[s].lastSeenDate.null

\* the positions i of a window, from its second record on, at which num is in
\* the record and in the record before
DropPairs(window, num) ==
    {i \in 2..Len(window) :
        /\ num \in Range(window[i - 1].numbers)
        /\ num \in Range(window[i].numbers)}

\* C22: getLoRoiCandidates(W, mustBeConsecutive) maps a number to the count
\* of adjacent record pairs among the trailing W + 1 records that both hold
\* it, leaving out the numbers with count 0; with mustBeConsecutive a number
\* is returned only if its run is unbroken across the whole window, its count
\* being the number of adjacent pairs of the window.
C22_LoRoiCandidates ==
    analyzerPc = "getLoRoiCandidates" =>
        LET window == Trailing(analyzerHistory, daysLookback + 1)
            loRoiCounts == answer.loRoiCounts
        IN  /\ \A num \in DOMAIN loRoiCounts :
                   /\ loRoiCounts[num] > 0
                   /\ loRoiCounts[num] = Cardinality(DropPairs(window, num))
            /\ ~answer.mustBeConsecutive =>
                   DOMAIN loRoiCounts = {num \in Universe : DropPairs(window, num) # {}}
            /\ answer.mustBeConsecutive =>
                   \A num \in DOMAIN loRoiCounts :
                       /\ \A i \in 1..Len(window) : num \in Range(window[i].numbers)
                       /\ loRoiCounts[num] = Len(window) - 1

\* the indices, in the whole history, of the records of the trailing window
\* that hold num
WindowSeenAt(history, lookback, num) ==
    {k \in SeenAt(history, num) : k >= Len(history) - Min(lookback, Len(history))}

\* num has, in the window, count successive appearances p apart of which the
\* last is p before currentDayIndex: the appearances at currentDayIndex - p,
\* - 2p, .., - count * p, with no appearance between the first and the last
ActiveBridge(history, lookback, num, p, count) ==
    LET seen == WindowSeenAt(history, lookback, num)
        steps == {Len(history) - m * p : m \in 1..count}
    IN  /\ steps \subseteq seen
        /\ \A k \in seen :
               (k >= Len(history) - count * p /\ k <= Len(history) - p) => k \in steps

\* C23: getConsistentPeriodBridge(minOccurrences, maxPeriod, W) returns
\* exactly the numbers that have, for some period p in 1..maxPeriod,
\* minOccurrences successive appearances within the trailing W records, each
\* exactly p after the one before, the last of them p before currentDayIndex;
\* a number with fewer than minOccurrences appearances in the window is not
\* returned; the result is a set of numbers, without scores.
C23_ConsistentPeriodBridge ==
    analyzerPc = "getConsistentPeriodBridge" =>
        /\ answer.bridgeCandidates =
               {num \in Universe :
                   \E p \in 1..answer.maxPeriod :
                       ActiveBridge(analyzerHistory, daysLookback, num, p,
                                    answer.minOccurrences)}
        /\ \A num \in answer.bridgeCandidates :
               Cardinality(WindowSeenAt(analyzerHistory, daysLookback, num))
                   >= answer.minOccurrences

\* "00" landed on the days 0 and 2 of four and is returned for two appearances
\* two days apart; "42" landed on the days 1 and 3, a run that points past the
\* next day
C23_Witness ==
    /\ analyzerPc = "getConsistentPeriodBridge"
    /\ Len(analyzerHistory) = 4
    /\ daysLookback = LOOKBACK.MEDIUM
    /\ answer.minOccurrences = 2
    /\ answer.maxPeriod = 7
    /\ SeenAt(analyzerHistory, <<0, 0>>) = {0, 2}
    /\ SeenAt(analyzerHistory, <<4, 2>>) = {1, 3}
    /\ answer.bridgeCandidates = {<<0, 0>>}

\* the entry for (a, b) of a Map of Maps, an absent entry being 0
PairEntry(map, a, b) == IF b \in DOMAIN map[a] THEN map[a][b] ELSE 0

\* the numbers that landed on some record
Landed(history) == UNION {Range(history[k].numbers) : k \in 1..Len(history)}

\* C24: getAllPairCoOccurrences(W) is symmetric and counts days: for distinct
\* numbers a and b the entry for (a, b) equals the entry for (b, a) and the
\* number of records of the trailing window that hold both, an absent entry
\* being 0, however often a number is repeated within a record; no number
\* has an entry with itself.  A pair of which neither landed nor has an entry
\* has 0 on both sides.
C24_PairCoOccurrences ==
    analyzerPc = "getAllPairCoOccurrences" =>
        /\ DOMAIN answer = Universe
        /\ \A a \in Universe :
               /\ a \notin DOMAIN answer[a]
               /\ \A b \in (Landed(analyzerHistory) \cup DOMAIN answer[a]) \ {a} :
                      /\ PairEntry(answer, a, b) = PairEntry(answer, b, a)
                      /\ PairEntry(answer, a, b) =
                             Cardinality(CoOccurrenceDays(analyzerHistory,
                                                          daysLookback, a, b))

\* a window of two days that both land "42" twice and "07" once, after a day
\* outside the window: the pair has 2 on both sides
C24_Witness ==
    /\ analyzerPc = "getAllPairCoOccurrences"
    /\ Len(analyzerHistory) = 3
    /\ daysLookback = 2
    /\ \A k \in 1..3 : analyzerHistory[k].numbers = <<<<4, 2>>, <<0, 7>>, <<4, 2>>>>
    /\ PairEntry(answer, <<4, 2>>, <<0, 7>>) = 2
    /\ PairEntry(answer, <<0, 7>>, <<4, 2>>) = 2
    /\ DOMAIN answer[<<0, 0>>] = {}

\* the k-th smallest member of a finite set of integers
Nth(indices, k) ==
    CHOOSE index \in indices : Cardinality({other \in indices : other < index}) = k - 1

\* C25: getHistoricalGanAnalysis gives every number, as ganLengths, the
\* lengths of its completed absences in the order of time, the difference of
\* two successive appearance indices minus 1, the absence before the first
\* appearance not recorded; and as lastGanPeriod the open absence at the end,
\* getGanStatus().daysGone of the number, the history length if it never
\* landed.  So for a number that landed, first appearance index + number of
\* appearances + sum of ganLengths + lastGanPeriod is the history length.
C25_HistoricalGanAnalysis ==
    analyzerPc = "getHistoricalGanAnalysis" =>
        /\ ~answer.threw
        /\ \A num \in Universe :
               LET seen == SeenAt(analyzerHistory, num)
                   entry == answer.value[num]
               IN  /\ entry.ganLengths =
                          [j \in 1..Max(0, Cardinality(seen) - 1) |->
                              Nth(seen, j + 1) - Nth(seen, j) - 1]
                   /\ entry.lastGanPeriod = getGanStatus(analyzerHistory)[num].daysGone
                   /\ seen = {} => entry.lastGanPeriod = Len(analyzerHistory)
                   /\ seen # {} =>
                          Nth(seen, 1) + Cardinality(seen) + Sum(entry.ganLengths)
                              + entry.lastGanPeriod = Len(analyzerHistory)

-----------------------------------------------------------------------------
(* Properties of the global score adjustments *)

\* the two latest days of the history the engine was given, as sets
LastDay == Range(getLastDayNumbers(historyData))

SecondLastDay == Range(getSecondLastDayNumbers(historyData))

\* the aggregate score of num when Phase 1 ended, a NaN taken as 0
Aggregate(num) == OrZero(call.phase1Scores[num])

\* what the boosts for the reverse and the bong of num on the last day add
PairBoost(num) ==
    (IF reverseNumber(num) # num /\ reverseNumber(num) \in LastDay
     THEN 15 * ScoreScale ELSE 0)
    + (IF getLotoBong(num) # num /\ getLotoBong(num) \in LastDay
       THEN 10 * ScoreScale ELSE 0)

\* neither the long-absence penalty nor the medium-absence boost can act on a
\* number that has been away for daysGone days
AbsenceRulesIdle(daysGone) ==
    daysGone <= GAN_RANGE_MEDIUM[1] /\ daysGone <= GAN_RANGE_ULTRA_GAN[2]

\* the recency penalty as the code applies it: one factor per number
RecencyPenalised(num) ==
    IF num \in LastDay THEN Aggregate(num) \div 2
    ELSE IF num \in SecondLastDay THEN (Aggregate(num) * 4) \div 5
    ELSE Aggregate(num)

\* the recency penalty with each day's factor applied to every number of it
RecencyPenalisedPerDay(num) ==
    LET halved == IF num \in LastDay THEN Aggregate(num) \div 2 ELSE Aggregate(num)
    IN  IF num \in SecondLastDay THEN (halved * 4) \div 5 ELSE halved

\* C26 as stated: after a prediction every number of the last day has had its
\* aggregate score halved and every number of the second-last day has had it
\* multiplied by 0.8, before the boosts are added; other numbers keep their
\* aggregate score under this rule; every adjusted score is >= 0.
C26_PenaltyForEachDay ==
    pc = "predicted" =>
        LET ganStatus == getGanStatus(historyData) @@ <<>>
        IN  \A num \in Universe :
                /\ call.overallScores[num] >= 0
                /\ AbsenceRulesIdle(ganStatus[num].daysGone) =>
                       call.overallScores[num]
                           = RecencyPenalisedPerDay(num) + PairBoost(num)

\* C26, amended: the factor 0.8 is for the numbers of the second-last day
\* that did not land on the last day as well; a number of both days is halved
\* only.  The penalty comes before the boosts; every adjusted score is >= 0.
C26_RecencyPenalty ==
    pc = "predicted" =>
        LET ganStatus == getGanStatus(historyData) @@ <<>>
        IN  \A num \in Universe :
                /\ call.overallScores[num] >= 0
                /\ AbsenceRulesIdle(ganStatus[num].daysGone) =>
                       call.overallScores[num]
                           = RecencyPenalised(num) + PairBoost(num)

\* a prediction where a number of both days, one of the second-last day only
\* and one of the last day whose reverse landed there too all had a positive
\* aggregate score
C26_Witness ==
    /\ pc = "predicted"
    /\ \E num \in LastDay \cap SecondLastDay :
           /\ Aggregate(num) > 0
           /\ call.overallScores[num] = Aggregate(num) \div 2 + PairBoost(num)
    /\ \E num \in SecondLastDay \ LastDay :
           /\ Aggregate(num) > 0
           /\ call.overallScores[num] < Aggregate(num)
    /\ \E num \in LastDay :
           /\ Aggregate(num) > 0
           /\ reverseNumber(num) # num
           /\ reverseNumber(num) \in LastDay

\* the score of num after Penalty 1 and Penalty 2
AfterPenalties(num, daysGone) ==
    IF daysGone > GAN_RANGE_ULTRA_GAN[2] /\ RecencyPenalised(num) < 20 * ScoreScale
    THEN RecencyPenalised(num) \div 5 ELSE RecencyPenalised(num)

\* C27: after a prediction the numbers that got the bonus of 10 are exactly
\* those whose daysGone is in GAN_RANGE_MEDIUM, both bounds included, and
\* whose score after the penalties is greater than 0.
C27_MediumAbsenceBonus ==
    pc = "predicted" =>
        LET ganStatus == getGanStatus(historyData) @@ <<>>
        IN  \A num \in Universe :
                LET daysGone == ganStatus[num].daysGone
                    afterPenalties == AfterPenalties(num, daysGone)
                    bonus == IF /\ daysGone >= GAN_RANGE_MEDIUM[1]
                                /\ daysGone <= GAN_RANGE_MEDIUM[2]
                                /\ afterPenalties > 0
                             THEN 10 * ScoreScale ELSE 0
                IN  call.overallScores[num]
                        = afterPenalties + bonus + PairBoost(num)

====
